---- MODULE Spec2Model ----
(***************************************************************************)
(* A model of 2giants-cli: the intent router (agents/router.py), the       *)
(* orchestrator (main.py) and the file tools (tools/file_tools.py).        *)
(*                                                                         *)
(* A text is a sequence of atoms.  An atom is a piece of text that the     *)
(* program never looks inside: a character where the code works on         *)
(* characters (the router's reply, file contents), a longer piece          *)
(* elsewhere (a template, a message).  Concatenation is \o.                 *)
(***************************************************************************)
EXTENDS Naturals, Sequences, FiniteSets

VARIABLES
    envKey,     \* GOOGLE_API_KEY in the process environment (None: absent)
    tg,         \* the TwoGiants instance under construction / in use
    pc,         \* position of the one thread of control in a turn
    prompt,     \* execute()'s prompt argument
    session,    \* execute()'s session argument
    routerResp, \* what the router's model call did in this turn
    routed,     \* how self.router.route(prompt) ended: [exc, ret]
    route,      \* the local variable route of execute()
    llmResp,    \* what the branch handler's model call did in this turn
    raised,     \* the exception in flight / propagated out of execute()
    result,     \* execute()'s return value
    routerLog,  \* prompts sent to the router's model client in this turn
    llmLog,     \* message lists sent to the orchestrator's model client
    out,        \* lines emitted to the terminal in this turn
    fs,         \* the filesystem: absolute path -> node
    pre,        \* the filesystem as it was before the last tool call
    last,       \* the last tool call: its name, arguments and return value
    cwd,        \* the process working directory
    preCwd,     \* the working directory as it was before the last tool call
    environ,    \* os.environ: the variables, in the order the process holds them
    cli         \* the frontend: its position, the line read, what it has done

orchVars == <<envKey, tg, pc, prompt, session, routerResp, routed, route,
              llmResp, raised, result, routerLog, llmLog, out>>
toolVars == <<fs, pre, last, cwd, preCwd, environ>>
cliVars == <<cli>>
vars == <<envKey, tg, pc, prompt, session, routerResp, routed, route,
          llmResp, raised, result, routerLog, llmLog, out, fs, pre, last,
          cwd, preCwd, environ, cli>>

\* Python's None, where a text is expected, and where an exception is.
None == <<"<None>">>
NoExc == [type |-> "None", msg |-> <<>>]

(***************************************************************************)
(* Texts                                                                   *)
(***************************************************************************)
RECURSIVE Map(_, _)
Map(f, s) == IF s = <<>> THEN <<>> ELSE <<f[Head(s)]>> \o Map(f, Tail(s))

\* The characters the model's replies are written in.
Letters == {"c", "o", "n", "v", "e", "r", "s", "a", "t", "i", "x", "u", "h",
            "C", "E", "X", "R", "."}
Whitespace == {" ", "\n", "\t"}
Chars == Letters \cup Whitespace

\* str.lower(), character by character.
lowerCh == [ch \in Chars |->
              CASE ch = "C" -> "c"
                [] ch = "E" -> "e"
                [] ch = "X" -> "x"
                [] ch = "R" -> "r"
                [] OTHER -> ch]
lower(s) == Map(lowerCh, s)

\* str.strip(): leading and trailing whitespace removed, inner kept.
RECURSIVE lstrip(_)
lstrip(s) == IF s # <<>> /\ Head(s) \in Whitespace THEN lstrip(Tail(s)) ELSE s
RECURSIVE rstrip(_)
rstrip(s) == IF s # <<>> /\ s[Len(s)] \in Whitespace
             THEN rstrip(SubSeq(s, 1, Len(s) - 1)) ELSE s
strip(s) == rstrip(lstrip(s))

\* s occurs in t as a contiguous piece.
Contains(t, s) ==
    \E i \in 1..(Len(t) + 1) :
        i + Len(s) - 1 <= Len(t) /\ SubSeq(t, i, i + Len(s) - 1) = s

(***************************************************************************)
(* rich's console markup, as Console.print applies it to its argument:     *)
(* [name] opens a style, [/name] closes the innermost open style of that   *)
(* name, [/] closes the innermost open style; a closing tag that closes    *)
(* nothing raises MarkupError.  Styles left open are allowed.              *)
(***************************************************************************)
OpenTags == {"[dim]", "[red]", "[b]"}
CloseTags == {"[/dim]", "[/red]", "[/b]", "[/usr/lib]"}
ImplicitClose == "[/]"
TagName(a) == CASE a \in {"[dim]", "[/dim]"} -> "dim"
                [] a \in {"[red]", "[/red]"} -> "red"
                [] a \in {"[b]", "[/b]"} -> "b"
                [] a = "[/usr/lib]" -> "usr/lib"
                [] OTHER -> ""

\* The stack with its innermost entry of that name removed.
RECURSIVE pop_style(_, _)
pop_style(stack, name) ==
    IF stack[Len(stack)] = name
    THEN SubSeq(stack, 1, Len(stack) - 1)
    ELSE Append(pop_style(SubSeq(stack, 1, Len(stack) - 1), name),
                stack[Len(stack)])

RECURSIVE render(_, _)
render(t, stack) ==
    IF t = <<>> THEN TRUE
    ELSE LET a == Head(t) IN
         IF a \in OpenTags THEN render(Tail(t), Append(stack, TagName(a)))
         ELSE IF a = ImplicitClose
              THEN stack # <<>> /\ render(Tail(t), SubSeq(stack, 1, Len(stack) - 1))
         ELSE IF a \in CloseTags
              THEN (\E i \in 1..Len(stack) : stack[i] = TagName(a))
                   /\ render(Tail(t), pop_style(stack, TagName(a)))
         ELSE render(Tail(t), stack)

\* console.print(t) raises MarkupError.
MarkupError(t) == ~render(t, <<>>)

\* str(MarkupError): the message quotes the offending tag.
MarkupErrorMessage(t) ==
    LET bad == CHOOSE i \in 1..Len(t) :
                   /\ ~render(SubSeq(t, 1, i), <<>>)
                   /\ \A j \in 1..(i - 1) : render(SubSeq(t, 1, j), <<>>)
    IN <<"closing tag '", t[bad], "' doesn't match any open tag">>

(***************************************************************************)
(* Exceptions.  A value of the model is a record [type, msg]; NoExc is "no *)
(* exception".  KeyboardInterrupt derives from BaseException, every other  *)
(* type from Exception.                                                    *)
(***************************************************************************)
Exc(type, msg) == [type |-> type, msg |-> msg]
KeyboardInterrupt == Exc("KeyboardInterrupt", <<>>)

\* The faults the completion capability raises: timeout, transport, auth,
\* rate limit.  A message may quote a path in square brackets.
CompletionFaults ==
    { Exc("TimeoutError", <<"request timed out">>),
      Exc("ConnectionError", <<"connection reset by peer">>),
      Exc("PermissionDenied", <<"API key not valid">>),
      Exc("ResourceExhausted", <<"quota exceeded, see ", "[/usr/lib]", " docs">>) }

\* response.content.strip() on a response whose content is no string.
NotAStr == <<"<list>">>
AttributeError == Exc("AttributeError", <<"'list' object has no attribute 'strip'">>)

\* `except Exception` catches e.
ExceptExceptionMutCatchesTimeoutOnly(e) == e.type = "TimeoutError"
ExceptException(e) == e.type # "KeyboardInterrupt"

(***************************************************************************)
(* agents/router.py                                                        *)
(***************************************************************************)
CONVERSATION == <<"c", "o", "n", "v", "e", "r", "s", "a", "t", "i", "o", "n">>
EXECUTOR == <<"e", "x", "e", "c", "u", "t", "o", "r">>
RESEARCH == <<"r", "e", "s", "e", "a", "r", "c", "h">>
\* RouteType, and the list the reply is validated against.
RouteType == {CONVERSATION, EXECUTOR, RESEARCH}

\* RouterAgent._build_classification_prompt
_build_classification_prompt(user_input) ==
    <<"Classify this user input into ONE category. Input: \"">> \o user_input
    \o <<"\" Categories: ... Rules: ... Examples: ... Now classify: \"">>
    \o user_input \o <<"\" Answer (one word only):">>

\* What the reply is turned into before it is validated.
normalizeMutNoLower(content) == strip(content)
normalize(content) == lower(strip(content))

\* RouterAgent.route, given what self.llm.invoke(prompt) does (resp: the
\* exception it raises, or the content of the response it returns).
\* The value is [exc, ret, lines]: the exception that leaves route(), the
\* value returned, the diagnostic lines printed.
route_try(user_input, resp, debug) ==
    IF resp.exc # NoExc
    THEN [exc |-> resp.exc, ret |-> None, lines |-> <<>>]
    ELSE IF resp.content = NotAStr
    THEN [exc |-> AttributeError, ret |-> None, lines |-> <<>>]
    ELSE LET r == normalize(resp.content) IN
         IF r \in RouteType
         THEN [exc |-> NoExc, ret |-> r,
               lines |-> IF debug
                         THEN << <<"[Router] '">> \o user_input \o <<"' -> ">> \o r >>
                         ELSE <<>>]
         ELSE [exc |-> NoExc, ret |-> CONVERSATION,
               lines |-> IF debug
                         THEN << <<"[Router] Invalid response '">> \o r
                                 \o <<"', defaulting to conversation">> >>
                         ELSE <<>>]

RouterAgent_route(user_input, resp, debug) ==
    LET body == route_try(user_input, resp, debug) IN
    IF body.exc = NoExc THEN body
    ELSE IF ExceptException(body.exc)
    THEN [exc |-> NoExc, ret |-> CONVERSATION,
          lines |-> IF debug
                    THEN << <<"[Router] Error: ">> \o body.exc.msg
                            \o <<", defaulting to conversation">> >>
                    ELSE <<>>]
    ELSE body

\* RouterAgent.get_route_description
get_route_description(r) ==
    CASE r = CONVERSATION -> <<"Conversation - I'll chat and explain">>
      [] r = EXECUTOR -> <<"Executor - I'll plan and execute with your approval">>
      [] r = RESEARCH -> <<"Research - I'll search for information">>
      [] OTHER -> <<"Unknown route">>

(***************************************************************************)
(* main.py                                                                 *)
(***************************************************************************)
\* `not self.api_key`: the variable is absent (os.getenv gives None) or empty.
KeyMissingMutNoneOnly(key) == key = None
KeyMissing(key) == key = None \/ key = <<>>

\* An attribute that was never assigned.
NoRouter == [debug |-> FALSE, model |-> "None"]
NoLLM == [model |-> "None"]
NoInstance == [status |-> "none", safe_mode |-> FALSE, debug |-> FALSE,
               api_key |-> None, router |-> NoRouter, llm |-> NoLLM]

\* TwoGiants.__init__: the instance as __init__ leaves it.
TwoGiants_initMutSafeModeGatesDebug(safe_mode, debug, key) ==
    IF KeyMissing(key)
    THEN [status |-> "failed", safe_mode |-> safe_mode, debug |-> debug,
          api_key |-> key, router |-> NoRouter, llm |-> NoLLM]
    ELSE [status |-> "ready", safe_mode |-> safe_mode, debug |-> debug /\ safe_mode,
          api_key |-> key,
          router |-> [debug |-> debug /\ safe_mode, model |-> "gemini-2.5-flash"],
          llm |-> [model |-> "gemini-3-flash-preview"]]
TwoGiants_init(safe_mode, debug, key) ==
    IF KeyMissing(key)
    THEN [status |-> "failed", safe_mode |-> safe_mode, debug |-> debug,
          api_key |-> key, router |-> NoRouter, llm |-> NoLLM]
    ELSE [status |-> "ready", safe_mode |-> safe_mode, debug |-> debug,
          api_key |-> key,
          router |-> [debug |-> debug, model |-> "gemini-2.5-flash"],
          llm |-> [model |-> "gemini-3-flash-preview"]]

ConversationSystemPrompt == <<"You are 2Giants, a friendly and helpful AI assistant. ...">>
ResearchSystemPrompt == <<"You are 2Giants Research Agent. ...">>

\* The messages list of a branch handler.
Messages(system_prompt, user) ==
    << <<"system", system_prompt>>, <<"user", user>> >>

\* TwoGiants._handle_executor
ExecutorHead == <<"Executor Agent (Coming Soon) I understand you want to execute: \"">>
ExecutorTail == <<"\" The Executor Agent will: 1. Plan ... 5. Execute approved commands This feature is being implemented. ...">>
_handle_executor(p) == ExecutorHead \o p \o ExecutorTail

\* The return value of TwoGiants._handle_conversation for a response.
_handle_conversationMutStrips(text) == strip(text)
_handle_conversation(text) == text

\* The return value of TwoGiants._handle_research for a response.
ResearchHead == <<"Research Mode (Basic - Web search coming soon)", "\n", "\n">>
ResearchTail == <<"\n", "\n", "Note: Full research capabilities with web search and documentation indexing are being implemented.">>
_handle_researchMutNoTail(text) == ResearchHead \o text
_handle_research(text) == ResearchHead \o text \o ResearchTail

SorryPrefix == <<"Sorry, I encountered an error: ">>

\* The except clause of TwoGiants.execute for the exception e raised in its
\* try block: [exc, ret, lines] as for RouterAgent_route.
execute_except(e, debug) ==
    LET line == <<"[red]", "Error:", "[/red]", " ">> \o e.msg
        trace == <<"Traceback (most recent call last): ... ">> \o e.msg
    IN IF ~ExceptException(e)
       THEN [exc |-> e, ret |-> None, lines |-> <<>>]
       ELSE IF MarkupError(line)
       THEN [exc |-> Exc("MarkupError", MarkupErrorMessage(line)),
             ret |-> None, lines |-> <<>>]
       ELSE IF debug /\ MarkupError(trace)
       THEN [exc |-> Exc("MarkupError", MarkupErrorMessage(trace)),
             ret |-> None, lines |-> <<line>>]
       ELSE [exc |-> NoExc, ret |-> SorryPrefix \o e.msg,
             lines |-> IF debug THEN <<line, trace>> ELSE <<line>>]

\* Lines 76-87 of TwoGiants.execute: the branch taken for route r, given what
\* self.llm.invoke(messages) does if it is called (resp: the exception it
\* raises, or the text of its response).  [exc, ret, calls]: the exception
\* the handler raises, the value it returns, the message lists it sent.
execute_branchMutExecutorCallsModel(r, p, resp) ==
    IF r = RESEARCH
    THEN [exc |-> resp.exc, calls |-> <<Messages(ResearchSystemPrompt, p)>>,
          ret |-> IF resp.exc = NoExc THEN _handle_research(resp.text) ELSE None]
    ELSE IF r = EXECUTOR
    THEN [exc |-> resp.exc, calls |-> <<Messages(ConversationSystemPrompt, p)>>,
          ret |-> IF resp.exc = NoExc THEN _handle_executor(p) ELSE None]
    ELSE [exc |-> resp.exc, calls |-> <<Messages(ConversationSystemPrompt, p)>>,
          ret |-> IF resp.exc = NoExc THEN _handle_conversation(resp.text) ELSE None]
execute_branch(r, p, resp) ==
    IF r = CONVERSATION
    THEN [exc |-> resp.exc, calls |-> <<Messages(ConversationSystemPrompt, p)>>,
          ret |-> IF resp.exc = NoExc THEN _handle_conversation(resp.text) ELSE None]
    ELSE IF r = EXECUTOR
    THEN [exc |-> NoExc, calls |-> <<>>, ret |-> _handle_executor(p)]
    ELSE IF r = RESEARCH
    THEN [exc |-> resp.exc, calls |-> <<Messages(ResearchSystemPrompt, p)>>,
          ret |-> IF resp.exc = NoExc THEN _handle_research(resp.text) ELSE None]
    ELSE [exc |-> resp.exc, calls |-> <<Messages(ConversationSystemPrompt, p)>>,
          ret |-> IF resp.exc = NoExc THEN _handle_conversation(resp.text) ELSE None]

(***************************************************************************)
(* The inputs of the orchestrator's actions                                *)
(***************************************************************************)
EnvKeys == {None, <<>>, <<"AIza-key">>}
Utterances == {<<"hello">>, <<"deploy to production">>, <<>>,
               <<"rm ", "[/b]">>, <<"[b]", "bold">>}
Sessions == {None, <<"s1">>}

\* Reply texts of the router's model.
RouterReplies ==
    { CONVERSATION, EXECUTOR, RESEARCH,
      <<" ">> \o EXECUTOR \o <<"\n">>,
      <<"\t", "R">> \o Tail(RESEARCH),
      <<"E", "X", "E", "C">> \o SubSeq(EXECUTOR, 5, 8) \o <<" ", "\n">>,
      <<"C">> \o Tail(CONVERSATION),
      <<>>, <<" ", "\n">>,
      <<"c", "h", "a", "t">>,
      EXECUTOR \o <<".">>,
      EXECUTOR \o <<" ">> \o RESEARCH }

\* What the router's self.llm.invoke(prompt) does.
RouterOutcomes ==
    { [exc |-> NoExc, content |-> c] : c \in RouterReplies \cup {NotAStr} }
    \cup { [exc |-> e, content |-> None] : e \in CompletionFaults \cup {KeyboardInterrupt} }

ModelTexts == {<<"Hi there!">>, <<" ", "Use ", "[b]", "git", "[/b]", "\n">>}

\* What the orchestrator's self.llm.invoke(messages) does.
HandlerOutcomes ==
    { [exc |-> NoExc, text |-> t] : t \in ModelTexts }
    \cup { [exc |-> e, text |-> None] : e \in CompletionFaults \cup {KeyboardInterrupt} }

(***************************************************************************)
(* The orchestrator's actions                                              *)
(***************************************************************************)
\* No model call made, route() not yet returned.
NoRouterResp == [exc |-> NoExc, content |-> None]
NoLlmResp == [exc |-> NoExc, text |-> None]
NotRouted == [exc |-> NoExc, ret |-> None]

TurnReset ==
    /\ routerResp' = NoRouterResp
    /\ routed' = NotRouted
    /\ llmResp' = NoLlmResp
    /\ route' = None
    /\ raised' = NoExc
    /\ result' = None
    /\ routerLog' = <<>>
    /\ llmLog' = <<>>

\* TwoGiants(safe_mode, debug): __init__ run to its end or to its raise.
Construct(safe_mode, debug) ==
    /\ pc \in {"idle", "done"}
    /\ tg' = TwoGiants_init(safe_mode, debug, envKey)
    /\ pc' = "idle"
    /\ prompt' = None
    /\ session' = None
    /\ TurnReset
    /\ out' = IF tg'.status = "ready" /\ debug
              THEN << <<"[dim]", "Debug mode enabled", "[/dim]">>,
                      <<"[dim]", "API Key: ">> \o tg'.api_key \o <<"...", "[/dim]">>,
                      <<"[dim]", "Router Agent initialized", "[/dim]">> >>
              ELSE <<>>
    /\ UNCHANGED <<envKey, toolVars, cliVars>>

\* execute(prompt, session) up to its try statement (lines 63-64).
ExecuteBegin(p, s) ==
    /\ pc \in {"idle", "done"}
    /\ tg.status = "ready"
    /\ prompt' = p
    /\ session' = s
    /\ routerResp' = NoRouterResp
    /\ routed' = NotRouted
    /\ llmResp' = NoLlmResp
    /\ route' = None
    /\ result' = None
    /\ routerLog' = <<>>
    /\ llmLog' = <<>>
    /\ LET line == <<"[dim]", "Received: ">> \o p \o <<"[/dim]">> IN
       IF tg.debug /\ MarkupError(line)
       THEN /\ raised' = Exc("MarkupError", MarkupErrorMessage(line))
            /\ out' = <<>>
            /\ pc' = "done"
       ELSE /\ raised' = NoExc
            /\ out' = IF tg.debug THEN <<line>> ELSE <<>>
            /\ pc' = "route"
    /\ UNCHANGED <<envKey, tg, toolVars, cliVars>>

\* Line 68: route = self.router.route(prompt); an exception that leaves
\* route() is handled by execute's except clause.
Route(resp) ==
    /\ pc = "route"
    /\ routerLog' = Append(routerLog, _build_classification_prompt(prompt))
    /\ routerResp' = resp
    /\ routed' = [exc |-> RouterAgent_route(prompt, resp, tg.router.debug).exc,
                  ret |-> RouterAgent_route(prompt, resp, tg.router.debug).ret]
    /\ LET r == RouterAgent_route(prompt, resp, tg.router.debug)
           h == execute_except(r.exc, tg.debug)
       IN IF r.exc = NoExc
          THEN /\ route' = r.ret
               /\ out' = out \o r.lines
               /\ pc' = "dispatch"
               /\ UNCHANGED <<raised, result>>
          ELSE /\ route' = None
               /\ out' = out \o r.lines \o h.lines
               /\ raised' = h.exc
               /\ result' = h.ret
               /\ pc' = "done"
    /\ UNCHANGED <<envKey, tg, prompt, session, llmResp, llmLog, toolVars, cliVars>>

\* Lines 71-96: the route description is shown, the branch handler runs, and
\* whatever is raised goes through the except clause.
Dispatch(resp) ==
    /\ pc = "dispatch"
    /\ LET desc == <<"[dim]">> \o get_route_description(route) \o <<"[/dim]">>
           b == IF MarkupError(desc)
                THEN [exc |-> Exc("MarkupError", MarkupErrorMessage(desc)),
                      calls |-> <<>>, ret |-> None]
                ELSE execute_branch(route, prompt, resp)
           shown == IF MarkupError(desc) THEN <<>> ELSE <<desc, <<>> >>
           h == execute_except(b.exc, tg.debug)
       IN /\ llmLog' = llmLog \o b.calls
          /\ llmResp' = IF b.calls = <<>> THEN NoLlmResp ELSE resp
          /\ IF b.exc = NoExc
             THEN /\ result' = b.ret
                  /\ raised' = NoExc
                  /\ out' = out \o shown
             ELSE /\ result' = h.ret
                  /\ raised' = h.exc
                  /\ out' = out \o shown \o h.lines
    /\ pc' = "done"
    /\ UNCHANGED <<envKey, tg, prompt, session, routerResp, routed, route,
                   routerLog, toolVars, cliVars>>

(***************************************************************************)
(* cli.py.  One call of TwoGiants.execute is taken here in one piece, as   *)
(* the frontend sees it; it is the composition of ExecuteBegin, Route and  *)
(* Dispatch above.                                                         *)
(***************************************************************************)
\* TwoGiants.execute(p) on the instance t, given what the router's and the
\* handler's model calls do: the exception that leaves execute, the value
\* returned, the numbers of calls made of the router's and of the
\* orchestrator's model.
TwoGiants_execute(t, p, rresp, hresp) ==
    LET received == <<"[dim]", "Received: ">> \o p \o <<"[/dim]">>
        \* Lines 66-96, once route() gave r: the branch b, the except clause.
        handled(r, b) ==
            IF r.exc # NoExc \/ b.exc # NoExc
            THEN LET caught == execute_except(IF r.exc # NoExc THEN r.exc ELSE b.exc,
                                              t.debug)
                 IN [exc |-> caught.exc, ret |-> caught.ret, router_calls |-> 1,
                     llm_calls |-> IF r.exc # NoExc THEN 0 ELSE Len(b.calls)]
            ELSE [exc |-> NoExc, ret |-> b.ret, router_calls |-> 1,
                  llm_calls |-> Len(b.calls)]
        routed_to(r) == handled(r, execute_branch(r.ret, p, hresp))
    IN IF t.debug /\ MarkupError(received)
       THEN [exc |-> Exc("MarkupError", MarkupErrorMessage(received)), ret |-> None,
             router_calls |-> 0, llm_calls |-> 0]
       ELSE routed_to(RouterAgent_route(p, rresp, t.router.debug))

\* str(ValueError) of the constructor's missing-credential error.
KeyNotFound ==
    <<"GOOGLE_API_KEY not found in environment. Please create a .env file with your API key.">>

\* How one call of execute_command went: the exception that left it, whether
\* the input was printed, whether the constructor ran (the credential was
\* checked), the prompt handed to execute (None: execute was not called),
\* and the model calls made.
Command(exc, printed, constructed, forwarded, router_calls, llm_calls) ==
    [exc |-> exc, printed |-> printed, constructed |-> constructed,
     forwarded |-> forwarded, router_calls |-> router_calls, llm_calls |-> llm_calls]
NoCommand == Command(NoExc, FALSE, FALSE, None, 0, 0)

\* Lines 197-201: the except clause of execute_command, for the exception e
\* of its try block; the exception that leaves execute_command.
command_except(e, debug) ==
    LET line == <<"[red]", "Error:", "[/red]", " ">> \o e.msg
        trace == <<"Traceback (most recent call last): ... ">> \o e.msg
    IN IF ~ExceptException(e) THEN e
       ELSE IF MarkupError(line) THEN Exc("MarkupError", MarkupErrorMessage(line))
       ELSE IF debug /\ MarkupError(trace) THEN Exc("MarkupError", MarkupErrorMessage(trace))
       ELSE NoExc

\* execute_command(prompt, dry_run, safe_mode, session, debug) with the
\* credential key in the environment.
execute_command(p, dry_run, safe_mode, session_id, debug, key, rresp, hresp) ==
    LET you == <<"[cyan]", "You:", "[/cyan]", " ">> \o p
        t == TwoGiants_init(safe_mode, debug, key)
        answer(x) == <<"[green]", "2Giants:", "[/green]", " ">> \o x.ret
        \* Lines 187-201: the try block and its except clause; e is the
        \* exception of the try block.
        tried(e, constructed, forwarded, router_calls, llm_calls) ==
            Command(IF e = NoExc THEN NoExc ELSE command_except(e, debug),
                    TRUE, constructed, forwarded, router_calls, llm_calls)
        executed(x) ==
            tried(IF x.exc # NoExc THEN x.exc
                  ELSE IF MarkupError(answer(x))
                  THEN Exc("MarkupError", MarkupErrorMessage(answer(x)))
                  ELSE NoExc,
                  TRUE, p, x.router_calls, x.llm_calls)
    IN IF MarkupError(you)
       THEN Command(command_except(Exc("MarkupError", MarkupErrorMessage(you)), debug),
                    FALSE, FALSE, None, 0, 0)
       ELSE IF dry_run
       THEN Command(NoExc, TRUE, FALSE, None, 0, 0)
       ELSE IF t.status = "failed"
       THEN tried(Exc("ValueError", KeyNotFound), TRUE, None, 0, 0)
       ELSE executed(TwoGiants_execute(t, p, rresp, hresp))

\* str.lower() on the words of a line.
lower_word(w) == CASE w = "EXIT" -> "exit"
                   [] w = "Quit" -> "quit"
                   [] w = "Help" -> "help"
                   [] w = "CLS" -> "cls"
                   [] OTHER -> w
line_lower(l) == [i \in 1..Len(l) |-> lower_word(l[i])]

QuitWords == { <<"exit">>, <<"quit">>, <<"q">>, <<"bye">> }
HelpWords == { <<"help">>, <<"?">> }
ClearWords == { <<"clear">>, <<"cls">> }

\* What prompt_session.prompt gives: a line, or the exception it raises.
Typed(l) == [kind |-> "line", line |-> l]
CtrlC == [kind |-> "KeyboardInterrupt", line |-> <<>>]
CtrlD == [kind |-> "EOFError", line |-> <<>>]

\* How one pass of the loop went: how the input was taken (how), what the
\* loop does next (next: "continue", "break", or "raise" when an exception
\* leaves the loop), that exception, and the call of execute_command made.
Pass(how, next, exc, cmd) == [how |-> how, next |-> next, exc |-> exc, cmd |-> cmd]

\* Lines 159-163: the loop's `except Exception` clause for the exception e.
loop_except(e, debug, cmd) ==
    LET line == <<"\n", "[red]", "Error: ">> \o e.msg \o <<"[/red]", "\n">>
        trace == <<"Traceback (most recent call last): ... ">> \o e.msg
    IN IF MarkupError(line)
       THEN Pass("error", "raise", Exc("MarkupError", MarkupErrorMessage(line)), cmd)
       ELSE IF debug /\ MarkupError(trace)
       THEN Pass("error", "raise", Exc("MarkupError", MarkupErrorMessage(trace)), cmd)
       ELSE Pass("error", "continue", NoExc, cmd)

\* Lines 112-163: one pass of the interactive loop.
loop_pass(input, safe_mode, session_id, debug, key, rresp, hresp) ==
    LET user_input == strip(input.line)
        \* Lines 140-163: after the call cmd of execute_command.
        called(cmd) ==
            IF cmd.exc = NoExc THEN Pass("dispatched", "continue", NoExc, cmd)
            ELSE IF cmd.exc = KeyboardInterrupt
            THEN Pass("interrupted", "continue", NoExc, cmd)
            ELSE loop_except(cmd.exc, debug, cmd)
    IN IF input.kind = "KeyboardInterrupt"
       THEN Pass("interrupted", "continue", NoExc, NoCommand)
       ELSE IF input.kind = "EOFError"
       THEN Pass("eof", "break", NoExc, NoCommand)
       ELSE IF user_input = <<>> THEN Pass("skipped", "continue", NoExc, NoCommand)
       ELSE IF line_lower(user_input) \in QuitWords
       THEN Pass("quit", "break", NoExc, NoCommand)
       ELSE IF line_lower(user_input) \in HelpWords
       THEN Pass("help", "continue", NoExc, NoCommand)
       ELSE IF line_lower(user_input) \in ClearWords
       THEN Pass("clear", "continue", NoExc, NoCommand)
       ELSE called(execute_command(user_input, FALSE, safe_mode, session_id, debug, key,
                                   rresp, hresp))

(***************************************************************************)
(* tools/file_tools.py.  A path is a text whose atoms are "/", "~" and     *)
(* pieces of names; a file's content is a sequence of bytes, its decoded   *)
(* text a sequence of characters.  The filesystem is a function from the   *)
(* absolute paths that exist to nodes [kind, data, ro]: ro on a file       *)
(* refuses opening it for writing, ro on a directory refuses creating and  *)
(* removing its entries (POSIX permissions).                               *)
(***************************************************************************)
Home == <<"/", "h">>
\* os.getcwd(): the process working directory.
Cwd == cwd

\* os.path.expanduser
expanduser(p) ==
    IF p # <<>> /\ Head(p) = "~" /\ (Len(p) = 1 \/ p[2] = "/")
    THEN Home \o Tail(p) ELSE p

\* The absolute path the kernel resolves p to ("." is the working directory).
abspath(p) ==
    LET under(r) == IF Cwd = <<"/">> THEN Cwd \o r ELSE Cwd \o <<"/">> \o r IN
    IF p # <<>> /\ Head(p) = "/" THEN p
    ELSE IF p = <<".">> THEN Cwd
    ELSE IF Len(p) >= 2 /\ p[1] = "." /\ p[2] = "/" THEN under(SubSeq(p, 3, Len(p)))
    ELSE under(p)

\* os.path.dirname
RECURSIVE dirname(_)
dirname(p) ==
    IF p = <<>> THEN <<>>
    ELSE IF p[Len(p)] = "/"
         THEN IF Len(p) = 1 THEN p ELSE SubSeq(p, 1, Len(p) - 1)
         ELSE dirname(SubSeq(p, 1, Len(p) - 1))

Root == <<"/">>
Dir(ro) == [kind |-> "dir", data |-> <<>>, ro |-> ro]
File(data, ro) == [kind |-> "file", data |-> data, ro |-> ro]

\* os.path.exists, os.path.isfile, os.path.isdir, os.path.getsize
exists(f, p) == abspath(p) \in DOMAIN f
isfile(f, p) == exists(f, p) /\ f[abspath(p)].kind = "file"
isdir(f, p) == exists(f, p) /\ f[abspath(p)].kind = "dir"
getsize(f, p) == Len(f[abspath(p)].data)

\* The filesystem with node n at path q, and without path q.
Put(f, q, n) == [x \in DOMAIN f \cup {q} |-> IF x = q THEN n ELSE f[x]]
Remove(f, q) == [x \in DOMAIN f \ {q} |-> f[x]]

\* Decoding on open(path, 'r', encoding='utf-8'): a byte that is no UTF-8
\* raises UnicodeDecodeError; "\r\n" and "\r" are read as "\n".
InvalidByte == "\\xff"
Undecodable(data) == \E i \in 1..Len(data) : data[i] = InvalidByte
RECURSIVE translate_newlines(_)
translate_newlines(d) ==
    IF d = <<>> THEN <<>>
    ELSE IF Head(d) = "\r"
         THEN IF Len(d) >= 2 /\ d[2] = "\n"
              THEN <<"\n">> \o translate_newlines(SubSeq(d, 3, Len(d)))
              ELSE <<"\n">> \o translate_newlines(Tail(d))
         ELSE <<Head(d)>> \o translate_newlines(Tail(d))
decode(data) == translate_newlines(data)

\* Encoding on open(path, 'w', encoding='utf-8'): "\n" is written as
\* os.linesep, which is "\n" on POSIX.
linesep == <<"\n">>
RECURSIVE encode(_)
encode(text) ==
    IF text = <<>> THEN <<>>
    ELSE (IF Head(text) = "\n" THEN linesep ELSE <<Head(text)>>) \o encode(Tail(text))

\* str.startswith at position i, `sub in s`, str.count, str.replace
MatchAt(s, sub, i) ==
    i + Len(sub) - 1 <= Len(s) /\ SubSeq(s, i, i + Len(sub) - 1) = sub
str_in(sub, s) == \E i \in 1..(Len(s) + 1) : MatchAt(s, sub, i)
RECURSIVE str_count(_, _)
str_count(s, sub) ==
    IF sub = <<>> THEN Len(s) + 1
    ELSE IF Len(s) < Len(sub) THEN 0
    ELSE IF MatchAt(s, sub, 1)
         THEN 1 + str_count(SubSeq(s, Len(sub) + 1, Len(s)), sub)
         ELSE str_count(Tail(s), sub)
RECURSIVE str_replace(_, _, _)
str_replace(s, old, new) ==
    IF old = <<>>
    THEN IF s = <<>> THEN new
         ELSE new \o <<Head(s)>> \o str_replace(Tail(s), old, new)
    ELSE IF Len(s) < Len(old) THEN s
    ELSE IF MatchAt(s, old, 1)
         THEN new \o str_replace(SubSeq(s, Len(old) + 1, Len(s)), old, new)
         ELSE <<Head(s)>> \o str_replace(Tail(s), old, new)

\* len(content.splitlines())
RECURSIVE splitlines_len(_)
splitlines_len(s) ==
    IF s = <<>> THEN 0
    ELSE IF Head(s) = "\r" /\ Len(s) >= 2 /\ s[2] = "\n"
         THEN 1 + splitlines_len(SubSeq(s, 3, Len(s)))
    ELSE IF Head(s) \in {"\r", "\n"} THEN 1 + splitlines_len(Tail(s))
    ELSE IF \A i \in 1..Len(s) : s[i] \notin {"\r", "\n"} THEN 1
    ELSE splitlines_len(Tail(s))

\* str(n) of a natural number, and s[:n]
Digit(n) == CASE n = 0 -> "0" [] n = 1 -> "1" [] n = 2 -> "2" [] n = 3 -> "3"
              [] n = 4 -> "4" [] n = 5 -> "5" [] n = 6 -> "6" [] n = 7 -> "7"
              [] n = 8 -> "8" [] n = 9 -> "9"
RECURSIVE str_int(_)
str_int(n) == IF n < 10 THEN <<Digit(n)>> ELSE str_int(n \div 10) \o <<Digit(n % 10)>>
Slice(s, n) == IF Len(s) <= n THEN s ELSE SubSeq(s, 1, n)

\* open(q, 'w') followed by f.write(text), q absolute: [exc, fs].
open_w(f, q, text) ==
    IF q \in DOMAIN f
    THEN IF f[q].kind = "dir"
         THEN [exc |-> Exc("IsADirectoryError", <<"[Errno 21] Is a directory">>), fs |-> f]
         ELSE IF f[q].ro
         THEN [exc |-> Exc("PermissionError", <<"[Errno 13] Permission denied">>), fs |-> f]
         ELSE [exc |-> NoExc, fs |-> Put(f, q, File(encode(text), FALSE))]
    ELSE IF dirname(q) \notin DOMAIN f
    THEN [exc |-> Exc("FileNotFoundError", <<"[Errno 2] No such file or directory">>), fs |-> f]
    ELSE IF f[dirname(q)].kind # "dir"
    THEN [exc |-> Exc("NotADirectoryError", <<"[Errno 20] Not a directory">>), fs |-> f]
    ELSE IF f[dirname(q)].ro
    THEN [exc |-> Exc("PermissionError", <<"[Errno 13] Permission denied">>), fs |-> f]
    ELSE [exc |-> NoExc, fs |-> Put(f, q, File(encode(text), FALSE))]

\* os.makedirs(q, exist_ok=True), q absolute: [exc, fs].
RECURSIVE makedirs(_, _)
makedirs(f, q) ==
    IF q \in DOMAIN f
    THEN IF f[q].kind = "dir" THEN [exc |-> NoExc, fs |-> f]
         ELSE [exc |-> Exc("FileExistsError", <<"[Errno 17] File exists">>), fs |-> f]
    ELSE LET up == makedirs(f, dirname(q)) IN
         IF up.exc # NoExc
         THEN IF up.exc.type = "FileExistsError"
              THEN [exc |-> Exc("NotADirectoryError", <<"[Errno 20] Not a directory">>), fs |-> up.fs]
              ELSE up
         ELSE IF up.fs[dirname(q)].ro
         THEN [exc |-> Exc("PermissionError", <<"[Errno 13] Permission denied">>), fs |-> up.fs]
         ELSE [exc |-> NoExc, fs |-> Put(up.fs, q, Dir(FALSE))]

\* os.remove(q), q absolute and a file: [exc, fs].
os_remove(f, q) ==
    IF f[dirname(q)].ro
    THEN [exc |-> Exc("PermissionError", <<"[Errno 13] Permission denied">>), fs |-> f]
    ELSE [exc |-> NoExc, fs |-> Remove(f, q)]

\* The strings the tools return (the leading symbol of each is left out).
DeleteWarning ==
    <<"Deletion requires explicit confirmation.", "\n",
      "Use: delete_file(filepath, confirm=True)", "\n", "\n",
      "WARNING: This operation cannot be undone!">>
AlreadyExists(p) ==
    <<"Error: File already exists: ">> \o p
    \o <<"\n", "Use overwrite=True to replace it, or use edit_file to modify it.">>
NotFound(p) == <<"Error: File not found: ">> \o p
NotAFile(p) == <<"Error: ">> \o p \o <<" is not a file">>
Created(p, size, lines) ==
    <<"Created ">> \o p \o <<"\n", "Size: ">> \o str_int(size)
    \o <<" bytes | Lines: ">> \o str_int(lines)
Edited(p, occurrences, backup_path, old_text, new_text) ==
    <<"Edited ">> \o p \o <<"\n", "Replaced ">> \o str_int(occurrences)
    \o <<" occurrence(s)", "\n", "Backup saved: ">> \o backup_path
    \o <<"\n", "\n", "Changes:", "\n", "  - Old: ">> \o Slice(old_text, 50)
    \o <<"...", "\n", "  + New: ">> \o Slice(new_text, 50) \o <<"...">>
Deleted(p, size) == <<"Deleted ">> \o p \o <<" (">> \o str_int(size) \o <<" bytes)">>

\* The except clauses of a tool: PermissionError, UnicodeDecodeError where
\* the tool names it, then Exception.
tool_except(e, verb, gerund, p, text_tool) ==
    IF e.type = "PermissionError"
    THEN <<"Error: Permission denied to ", verb, " ">> \o p
    ELSE IF e.type = "UnicodeDecodeError" /\ text_tool
    THEN <<"Error: ">> \o p \o <<" is not a text file">>
    ELSE <<"Error ", gerund, " ">> \o p \o <<": ">> \o e.msg

\* write_file(filepath, content, overwrite): [ret, fs].
write_fileMutIgnoresOverwrite(f, filepath, content, overwrite) ==
    LET p == expanduser(filepath)
        parent_dir == dirname(p)
        md == IF parent_dir # <<>> THEN makedirs(f, abspath(parent_dir))
              ELSE [exc |-> NoExc, fs |-> f]
        w == open_w(md.fs, abspath(p), content)
    IN IF md.exc # NoExc
       THEN [ret |-> tool_except(md.exc, "write", "writing", p, FALSE), fs |-> md.fs]
       ELSE IF w.exc # NoExc
       THEN [ret |-> tool_except(w.exc, "write", "writing", p, FALSE), fs |-> w.fs]
       ELSE [ret |-> Created(p, getsize(w.fs, p), splitlines_len(content)), fs |-> w.fs]
write_file(f, filepath, content, overwrite) ==
    LET p == expanduser(filepath)
        parent_dir == dirname(p)
        md == IF parent_dir # <<>> THEN makedirs(f, abspath(parent_dir))
              ELSE [exc |-> NoExc, fs |-> f]
        w == open_w(md.fs, abspath(p), content)
    IN IF exists(f, p) /\ ~overwrite
       THEN [ret |-> AlreadyExists(p), fs |-> f]
       ELSE IF md.exc # NoExc
       THEN [ret |-> tool_except(md.exc, "write", "writing", p, FALSE), fs |-> md.fs]
       ELSE IF w.exc # NoExc
       THEN [ret |-> tool_except(w.exc, "write", "writing", p, FALSE), fs |-> w.fs]
       ELSE [ret |-> Created(p, getsize(w.fs, p), splitlines_len(content)), fs |-> w.fs]

\* edit_file(filepath, old_text, new_text): [ret, fs].
edit_fileMutBackupBeforeCheck(f, filepath, old_text, new_text) ==
    LET p == expanduser(filepath)
        data == f[abspath(p)].data
        content == decode(data)
        backup_path == p \o <<".bak">>
        bk == open_w(f, abspath(backup_path), content)
        new_content == str_replace(content, old_text, new_text)
        occurrences == str_count(content, old_text)
        w == open_w(bk.fs, abspath(p), new_content)
    IN IF ~exists(f, p) THEN [ret |-> NotFound(p), fs |-> f]
       ELSE IF ~isfile(f, p) THEN [ret |-> NotAFile(p), fs |-> f]
       ELSE IF Undecodable(data)
       THEN [ret |-> tool_except(Exc("UnicodeDecodeError", <<"invalid start byte">>),
                                 "edit", "editing", p, TRUE), fs |-> f]
       ELSE IF bk.exc # NoExc
       THEN [ret |-> tool_except(bk.exc, "edit", "editing", p, TRUE), fs |-> bk.fs]
       ELSE IF ~str_in(old_text, content)
       THEN [ret |-> <<"Error: Text not found in ">> \o p \o <<"\n", "Searched for: ">>
                     \o Slice(old_text, 100) \o <<"...">>, fs |-> bk.fs]
       ELSE IF w.exc # NoExc
       THEN [ret |-> tool_except(w.exc, "edit", "editing", p, TRUE), fs |-> w.fs]
       ELSE [ret |-> Edited(p, occurrences, backup_path, old_text, new_text), fs |-> w.fs]
edit_file(f, filepath, old_text, new_text) ==
    LET p == expanduser(filepath)
        data == f[abspath(p)].data
        content == decode(data)
        backup_path == p \o <<".bak">>
        bk == open_w(f, abspath(backup_path), content)
        new_content == str_replace(content, old_text, new_text)
        occurrences == str_count(content, old_text)
        w == open_w(bk.fs, abspath(p), new_content)
    IN IF ~exists(f, p) THEN [ret |-> NotFound(p), fs |-> f]
       ELSE IF ~isfile(f, p) THEN [ret |-> NotAFile(p), fs |-> f]
       ELSE IF Undecodable(data)
       THEN [ret |-> tool_except(Exc("UnicodeDecodeError", <<"invalid start byte">>),
                                 "edit", "editing", p, TRUE), fs |-> f]
       ELSE IF ~str_in(old_text, content)
       THEN [ret |-> <<"Error: Text not found in ">> \o p \o <<"\n", "Searched for: ">>
                     \o Slice(old_text, 100) \o <<"...">>, fs |-> f]
       ELSE IF bk.exc # NoExc
       THEN [ret |-> tool_except(bk.exc, "edit", "editing", p, TRUE), fs |-> bk.fs]
       ELSE IF w.exc # NoExc
       THEN [ret |-> tool_except(w.exc, "edit", "editing", p, TRUE), fs |-> w.fs]
       ELSE [ret |-> Edited(p, occurrences, backup_path, old_text, new_text), fs |-> w.fs]

\* delete_file(filepath, confirm): [ret, fs].
delete_fileMutNoConfirm(f, filepath, confirm) ==
    LET p == expanduser(filepath)
        rm == os_remove(f, abspath(p))
    IN IF ~exists(f, p) THEN [ret |-> NotFound(p), fs |-> f]
       ELSE IF ~isfile(f, p)
       THEN [ret |-> NotAFile(p) \o <<" (use a different method for directories)">>, fs |-> f]
       ELSE IF rm.exc # NoExc
       THEN [ret |-> tool_except(rm.exc, "delete", "deleting", p, FALSE), fs |-> rm.fs]
       ELSE [ret |-> Deleted(p, getsize(f, p)), fs |-> rm.fs]
delete_file(f, filepath, confirm) ==
    LET p == expanduser(filepath)
        rm == os_remove(f, abspath(p))
    IN IF ~confirm THEN [ret |-> DeleteWarning, fs |-> f]
       ELSE IF ~exists(f, p) THEN [ret |-> NotFound(p), fs |-> f]
       ELSE IF ~isfile(f, p)
       THEN [ret |-> NotAFile(p) \o <<" (use a different method for directories)">>, fs |-> f]
       ELSE IF rm.exc # NoExc
       THEN [ret |-> tool_except(rm.exc, "delete", "deleting", p, FALSE), fs |-> rm.fs]
       ELSE [ret |-> Deleted(p, getsize(f, p)), fs |-> rm.fs]

\* read_file(filepath): [ret, fs].
read_file(f, filepath) ==
    LET p == expanduser(filepath)
        data == f[abspath(p)].data
        content == decode(data)
    IN IF ~exists(f, p) THEN [ret |-> NotFound(p), fs |-> f]
       ELSE IF ~isfile(f, p) THEN [ret |-> NotAFile(p), fs |-> f]
       ELSE IF Undecodable(data)
       THEN [ret |-> <<"Error: ">> \o p \o <<" is not a text file (binary content)">>,
             fs |-> f]
       ELSE [ret |-> <<"File: ">> \o p \o <<"\n", "Size: ">> \o str_int(getsize(f, p))
                     \o <<" bytes | Lines: ">> \o str_int(splitlines_len(content))
                     \o <<"\n", "\n">> \o content,
             fs |-> f]

\* os.mkdir(q), q absolute and absent: [exc, fs].
os_mkdir(f, q) ==
    IF dirname(q) \notin DOMAIN f
    THEN [exc |-> Exc("FileNotFoundError", <<"[Errno 2] No such file or directory">>), fs |-> f]
    ELSE IF f[dirname(q)].kind # "dir"
    THEN [exc |-> Exc("NotADirectoryError", <<"[Errno 20] Not a directory">>), fs |-> f]
    ELSE IF f[dirname(q)].ro
    THEN [exc |-> Exc("PermissionError", <<"[Errno 13] Permission denied">>), fs |-> f]
    ELSE [exc |-> NoExc, fs |-> Put(f, q, Dir(FALSE))]

DirectoryExists(p) == <<"Directory already exists: ">> \o p
ExistsNotDirectory(p) == <<"Error: ">> \o p \o <<" exists but is not a directory">>
CreatedDirectory(p) == <<"Created directory: ">> \o p

\* create_directory(path, parents): [ret, fs].
create_directoryMutRecreates(f, path, parents) ==
    LET p == expanduser(path)
        mk == IF parents THEN makedirs(f, abspath(p)) ELSE os_mkdir(f, abspath(p))
    IN IF exists(f, p)
       THEN IF isdir(f, p)
            THEN [ret |-> CreatedDirectory(p),
                  fs |-> Put(f, abspath(p) \o <<"/", "f">>, File(<<>>, FALSE))]
            ELSE [ret |-> ExistsNotDirectory(p), fs |-> f]
       ELSE IF mk.exc # NoExc
       THEN [ret |-> tool_except(mk.exc, "create", "creating directory", p, FALSE),
             fs |-> mk.fs]
       ELSE [ret |-> CreatedDirectory(p), fs |-> mk.fs]
create_directory(f, path, parents) ==
    LET p == expanduser(path)
        mk == IF parents THEN makedirs(f, abspath(p)) ELSE os_mkdir(f, abspath(p))
    IN IF exists(f, p)
       THEN IF isdir(f, p)
            THEN [ret |-> DirectoryExists(p), fs |-> f]
            ELSE [ret |-> ExistsNotDirectory(p), fs |-> f]
       ELSE IF mk.exc # NoExc
       THEN [ret |-> tool_except(mk.exc, "create", "creating directory", p, FALSE),
             fs |-> mk.fs]
       ELSE [ret |-> CreatedDirectory(p), fs |-> mk.fs]

\* The code points of a piece of a name, and of a name; Python orders
\* strings by code point.
ord(a) == CASE a = "." -> <<46>>
            [] a = ".bak" -> <<46, 98, 97, 107>>
            [] a = ".h" -> <<46, 104>>
            [] a = "a" -> <<97>>
            [] a = "b" -> <<98>>
            [] a = "d" -> <<100>>
            [] a = "f" -> <<102>>
            [] a = "h" -> <<104>>
            [] a = "n" -> <<110>>
            [] a = "v" -> <<118>>
            [] a = "A" -> <<65>>
            [] a = "B" -> <<66>>
            [] a = "K" -> <<75>>
            [] a \in {"0", "1", "2", "3", "4", "5", "6", "7", "8", "9"} ->
                 << 48 + (CHOOSE n \in 0..9 : Digit(n) = a) >>
RECURSIVE codepoints(_)
codepoints(name) ==
    IF name = <<>> THEN <<>> ELSE ord(Head(name)) \o codepoints(Tail(name))
RECURSIVE seq_lt(_, _)
seq_lt(x, y) ==
    IF y = <<>> THEN FALSE
    ELSE IF x = <<>> THEN TRUE
    ELSE IF Head(x) # Head(y) THEN Head(x) < Head(y)
    ELSE seq_lt(Tail(x), Tail(y))
str_lt(x, y) == seq_lt(codepoints(x), codepoints(y))

\* sorted(names), for names without duplicates.
RECURSIVE sorted(_)
sorted(S) ==
    IF S = {} THEN <<>>
    ELSE LET m == CHOOSE x \in S : \A y \in S \ {x} : str_lt(x, y)
         IN <<m>> \o sorted(S \ {m})

\* The names in S in the order the directory scan gives them, scan being a
\* ranking of names.
RECURSIVE scanned(_, _)
scanned(S, scan) ==
    IF S = {} THEN <<>>
    ELSE LET m == CHOOSE x \in S : \A y \in S : scan[x] <= scan[y]
         IN <<m>> \o scanned(S \ {m}, scan)

\* os.path.basename, os.path.join, str.startswith('.')
RECURSIVE basename(_)
basename(p) ==
    IF p = <<>> \/ p[Len(p)] = "/" THEN <<>>
    ELSE Append(basename(SubSeq(p, 1, Len(p) - 1)), p[Len(p)])
join_path(root, name) ==
    IF root # <<>> /\ root[Len(root)] = "/" THEN root \o name
    ELSE root \o <<"/">> \o name
hidden(name) == name # <<>> /\ Head(ord(Head(name))) = 46

\* os.listdir(q), q absolute: the names of the entries of directory q.
listdir(f, q) == { basename(x) : x \in { y \in DOMAIN f : y # q /\ dirname(y) = q } }

\* '\n'.join(lines)
RECURSIVE join(_)
join(lines) ==
    IF lines = <<>> THEN <<>>
    ELSE IF Len(lines) = 1 THEN lines[1]
    ELSE lines[1] \o <<"\n">> \o join(Tail(lines))

RECURSIVE Flatten(_)
Flatten(ss) == IF ss = <<>> THEN <<>> ELSE Head(ss) \o Flatten(Tail(ss))
RECURSIVE Repeat(_, _)
Repeat(a, n) == IF n = 0 THEN <<>> ELSE <<a>> \o Repeat(a, n - 1)

\* The lines of a listing (the symbols are written DIR and FILE).
DirLine(indent, name) == indent \o <<"DIR ">> \o name \o <<"/">>
FileLine(indent, name, size) ==
    indent \o <<"FILE ">> \o name \o <<" (">> \o str_int(size) \o <<" bytes)">>

\* The names of names that are shown.
shown_names(names, show_hidden) ==
    IF show_hidden THEN names ELSE { x \in names : ~hidden(x) }

\* The loop over os.walk(path): the lines for root and for everything below
\* it, top down; the subdirectories in the order of the scan.
RECURSIVE walk(_, _, _, _, _)
walk(f, path, root, show_hidden, scan) ==
    LET names == listdir(f, abspath(root))
        dirs == shown_names({ x \in names : isdir(f, join_path(root, x)) }, show_hidden)
        files == shown_names({ x \in names : ~isdir(f, join_path(root, x)) }, show_hidden)
        level == str_count(str_replace(root, path, <<>>), <<"/">>)
        indent == Repeat("  ", level)
        ordered == sorted(files)
        below == scanned(dirs, scan)
    IN << DirLine(indent, basename(root)) >>
       \o [i \in 1..Len(ordered) |->
             FileLine(indent \o <<"  ">>, ordered[i], getsize(f, join_path(root, ordered[i])))]
       \o Flatten([i \in 1..Len(below) |->
                     walk(f, path, join_path(root, below[i]), show_hidden, scan)])

\* The non-recursive branch: the lines for the directories, then the files.
flat_listing(f, p, show_hidden) ==
    LET items == sorted(shown_names(listdir(f, abspath(p)), show_hidden))
        dirs == SelectSeq(items, LAMBDA x : isdir(f, join_path(p, x)))
        files == SelectSeq(items, LAMBDA x : ~isdir(f, join_path(p, x)))
    IN [i \in 1..Len(dirs) |-> DirLine(<<>>, dirs[i])]
       \o [i \in 1..Len(files) |->
             FileLine(<<>>, files[i], getsize(f, join_path(p, files[i])))]
       \o << <<"\n", "Total: ">> \o str_int(Len(dirs)) \o <<" directories, ">>
             \o str_int(Len(files)) \o <<" files">> >>

\* list_directory(path, recursive, show_hidden): [ret, fs].
list_directory(f, path, recursive, show_hidden, scan) ==
    LET p == expanduser(path)
        head == <<"Contents of: ">> \o abspath(p) \o <<"\n">>
    IN IF ~exists(f, p) THEN [ret |-> <<"Error: Directory not found: ">> \o p, fs |-> f]
       ELSE IF ~isdir(f, p)
       THEN [ret |-> <<"Error: ">> \o p \o <<" is not a directory">>, fs |-> f]
       ELSE IF recursive
       THEN [ret |-> join(<<head>> \o walk(f, p, p, show_hidden, scan)), fs |-> f]
       ELSE [ret |-> join(<<head>> \o flat_listing(f, p, show_hidden)), fs |-> f]

(***************************************************************************)
(* tools/shell_tools.py.  A command is a text whose atoms are words and    *)
(* whitespace; what a child process did is a record: how subprocess.run    *)
(* ended (kind) and, when the child ran to its end, its captured output    *)
(* and its exit code.                                                      *)
(***************************************************************************)
Completed(stdout, stderr, returncode) ==
    [kind |-> "completed", stdout |-> stdout, stderr |-> stderr, returncode |-> returncode]
\* subprocess.run raised: TimeoutExpired, FileNotFoundError, PermissionError,
\* or UnicodeDecodeError (text=True on output that is no text).
Failed(kind) == [kind |-> kind, stdout |-> <<>>, stderr |-> <<>>, returncode |-> 0]
NoProc == Failed("none")

\* str.split(): the words of s.
RECURSIVE split(_)
split(s) ==
    LET t == lstrip(s)
        n == IF \E i \in 1..Len(t) : t[i] \in Whitespace
             THEN (CHOOSE i \in 1..Len(t) :
                      t[i] \in Whitespace /\ \A j \in 1..(i - 1) : t[j] \notin Whitespace) - 1
             ELSE Len(t)
    IN IF t = <<>> THEN <<>>
       ELSE <<SubSeq(t, 1, n)>> \o split(SubSeq(t, n + 1, Len(t)))

IndexError == Exc("IndexError", <<"list index out of range">>)

\* The exit-code line of execute_shell_command.
ExitLine(returncode) ==
    IF returncode # 0 THEN <<"\n", "Exit code: ">> \o str_int(returncode)
    ELSE <<"\n", "Exit code: 0 (success)">>

\* Lines 45-64: the text built from a child that ran to its end.
shell_outputMutNonZeroIsError(proc) ==
    IF proc.returncode # 0
    THEN <<"Error executing command: exit ">> \o str_int(proc.returncode)
    ELSE join((IF proc.stdout # <<>> THEN << <<"Output:">>, strip(proc.stdout) >> ELSE <<>>)
              \o << ExitLine(proc.returncode) >>)
shell_output(proc) ==
    join((IF proc.stdout # <<>> THEN << <<"Output:">>, strip(proc.stdout) >> ELSE <<>>)
         \o (IF proc.stderr # <<>>
             THEN << <<"\n", "Errors/Warnings:">>, strip(proc.stderr) >> ELSE <<>>)
         \o << ExitLine(proc.returncode) >>)

TimedOut(command, timeout) ==
    <<"Error: Command timed out after ">> \o str_int(timeout)
    \o <<" seconds", "\n", "Command: ">> \o command

\* execute_shell_command(command, timeout, shell), given what
\* subprocess.run does: [exc, ret].
execute_shell_command(command, timeout, shell, proc) ==
    CASE proc.kind = "completed" -> [exc |-> NoExc, ret |-> shell_output(proc)]
      [] proc.kind = "TimeoutExpired" -> [exc |-> NoExc, ret |-> TimedOut(command, timeout)]
      [] proc.kind = "FileNotFoundError" ->
           IF split(command) = <<>>
           THEN [exc |-> IndexError, ret |-> None]
           ELSE [exc |-> NoExc,
                 ret |-> <<"Error: Command not found: ">> \o split(command)[1]]
      [] proc.kind = "PermissionError" ->
           [exc |-> NoExc,
            ret |-> <<"Error executing command: ", "[Errno 13] Permission denied: ''",
                      "\n", "Command: ">> \o command]
      [] proc.kind = "UnicodeDecodeError" ->
           [exc |-> NoExc,
            ret |-> <<"Error executing command: ",
                      "'utf-8' codec can't decode byte 0xff in position 0: invalid start byte",
                      "\n", "Command: ">> \o command]

\* get_current_directory(), given what `git rev-parse --show-toplevel` prints
\* (None: it fails, times out or is not there).
get_current_directory(repo_root) ==
    IF repo_root # None
    THEN <<"Current Directory: ">> \o Cwd
         \o <<"\n", "\n", "Git Repository: ">> \o basename(strip(repo_root))
         \o <<"\n", "Repo Root: ">> \o strip(repo_root)
    ELSE <<"Current Directory: ">> \o Cwd

ChangedDirectory(old_dir, new_dir) ==
    <<"Changed directory", "\n", "\n", "From: ">> \o old_dir \o <<"\n", "To:   ">> \o new_dir

\* change_directory(path): [ret, cwd].  searchable: the process may enter
\* the directory (os.chdir raises PermissionError otherwise).
change_directoryMutMovesOnDenied(f, path, searchable) ==
    LET p == expanduser(path) IN
    IF ~exists(f, p) THEN [ret |-> <<"Error: Directory not found: ">> \o p, cwd |-> Cwd]
    ELSE IF ~isdir(f, p) THEN [ret |-> <<"Error: Not a directory: ">> \o p, cwd |-> Cwd]
    ELSE IF ~searchable
    THEN [ret |-> <<"Error: Permission denied to access ">> \o p, cwd |-> abspath(p)]
    ELSE [ret |-> ChangedDirectory(Cwd, abspath(p)), cwd |-> abspath(p)]
change_directory(f, path, searchable) ==
    LET p == expanduser(path) IN
    IF ~exists(f, p) THEN [ret |-> <<"Error: Directory not found: ">> \o p, cwd |-> Cwd]
    ELSE IF ~isdir(f, p) THEN [ret |-> <<"Error: Not a directory: ">> \o p, cwd |-> Cwd]
    ELSE IF ~searchable
    THEN [ret |-> <<"Error: Permission denied to access ">> \o p, cwd |-> Cwd]
    ELSE [ret |-> ChangedDirectory(Cwd, abspath(p)), cwd |-> abspath(p)]

\* str.lower() on the characters of environment keys, values and patterns.
str_lower(s) ==
    [i \in 1..Len(s) |-> CASE s[i] = "A" -> "a"
                           [] s[i] = "B" -> "b"
                           [] s[i] = "K" -> "k"
                           [] OTHER -> s[i]]

\* The number of variables the unfiltered listing takes.
Cap == 50

\* The keys of an environment, in its order; the value of a key.
env_keys(env) == [i \in 1..Len(env) |-> env[i].k]
env_value(env, key) == env[CHOOSE i \in 1..Len(env) : env[i].k = key].v
Range(seq) == { seq[i] : i \in 1..Len(seq) }

\* The line of one variable: the value cut at 100 characters.
env_line(key, value) ==
    key \o <<"=">> \o (IF Len(value) > 100 THEN SubSeq(value, 1, 100) \o <<"...">> ELSE value)

\* get_environment_variables(filter_pattern) on the environment env.
get_environment_variables(env, filter_pattern) ==
    IF filter_pattern # None /\ filter_pattern # <<>>
    THEN LET pattern_lower == str_lower(filter_pattern)
             filtered == { key \in Range(env_keys(env)) :
                             \/ str_in(pattern_lower, str_lower(key))
                             \/ str_in(pattern_lower, str_lower(env_value(env, key))) }
             keys == sorted(filtered)
         IN IF filtered = {}
            THEN <<"No environment variables found matching: ">> \o filter_pattern
            ELSE join(<< <<"Environment Variables (filtered by '">> \o filter_pattern
                         \o <<"'):", "\n">> >>
                      \o [i \in 1..Len(keys) |-> env_line(keys[i], env_value(env, keys[i]))]
                      \o << <<"\n", "Total: ">> \o str_int(Cardinality(filtered))
                            \o <<" variables">> >>)
    ELSE LET keys == sorted(Range(Slice(env_keys(env), Cap)))
         IN join(<< <<"Environment Variables (showing first 50):", "\n">> >>
                 \o [i \in 1..Len(keys) |-> env_line(keys[i], env_value(env, keys[i]))]
                 \o << <<"\n", "Showing 50 of ">> \o str_int(Len(env))
                       \o <<" total variables">>,
                       <<"Use filter_pattern to search specific variables">> >>)

\* get_system_info(), given whether psutil is there ("ok"), is not installed
\* ("missing") or raises ("fails").
get_system_info(psutil) ==
    LET head == << <<"System Information", "\n">>, <<"==================">>,
                   <<"\n", "Operating System:">>, <<"   OS: Linux 6.1">>,
                   <<"\n", "Python:">>, <<"   Version: 3.11.4">> >>
        tail == << <<"\n", "Current Directory:">>, <<"   ">> \o Cwd,
                   <<"\n", "==================">> >>
    IN CASE psutil = "ok" ->
              join(head \o << <<"\n", "CPU:">>, <<"\n", "Memory:">>, <<"\n", "Disk (/):">> >>
                   \o tail)
         [] psutil = "missing" ->
              join(head \o << <<"\n", "Install psutil for detailed CPU/Memory/Disk info:">>,
                              <<"   pip install psutil">> >> \o tail)
         [] psutil = "fails" ->
              <<"Error getting system info: ", "[Errno 13] Permission denied: '/proc/stat'">>

(***************************************************************************)
(* The inputs of the tools' actions                                        *)
(***************************************************************************)
\* No file of the model holds more bytes than this.
MaxLen == 3

\* Paths given to the tools.
WritePaths == { <<"~", "/", "f">>, <<"d", "/", "f">> }
EditPaths == { <<"~", "/", "f">>, <<"d">>, <<"n">> }
DeletePaths == { <<"~", "/", "f">>, <<"d", "/", "f">>, <<"d">> }
WriteContents == { <<>>, <<"a", "a">>, <<"a", "\r", "\n">> }
OldTexts == { <<"a">>, <<"a", "a">>, <<>>, <<"\n">>, <<"z">> }
NewTexts == { <<>>, <<"b", "b">> }

\* The filesystems a run starts from: the home directory, holding nothing,
\* or a file f (writable or not, in a home that is writable or not), or a
\* file f beside a directory named f.bak.
InitData == { <<"a", "a", "a">>, <<"a", "\r", "\n">>, <<"a", InvalidByte>> }
BaseFs(hro) == [x \in {Root, Home} |-> Dir(x = Home /\ hro)]
HomeF == Home \o <<"/", "f">>
InitFilesystems ==
    { BaseFs(FALSE) }
    \cup { Put(BaseFs(FALSE), HomeF, File(d, FALSE)) : d \in InitData }
    \cup { Put(BaseFs(FALSE), HomeF, File(<<"a", "a", "a">>, TRUE)),
           Put(BaseFs(TRUE), HomeF, File(<<"a", "a", "a">>, FALSE)),
           Put(Put(BaseFs(FALSE), HomeF, File(<<"a", "a", "a">>, FALSE)),
               HomeF \o <<".bak">>, Dir(FALSE)) }

NoCall == [op |-> "none", path |-> <<>>, a |-> <<>>, b |-> <<>>, flag |-> FALSE,
           ret |-> <<>>, exc |-> NoExc, proc |-> NoProc]
\* A call that returned ret; path is its first argument, a, b and flag its
\* further ones.
Call(op, path, a, b, flag, ret) ==
    [op |-> op, path |-> path, a |-> a, b |-> b, flag |-> flag, ret |-> ret,
     exc |-> NoExc, proc |-> NoProc]
\* A call of execute_shell_command, whose child process did proc, and which
\* ended as r: [exc, ret].
ShellCall(command, timeout, shell, proc, r) ==
    [op |-> "execute_shell_command", path |-> command, a |-> str_int(timeout),
     b |-> <<>>, flag |-> shell, ret |-> r.ret, exc |-> r.exc, proc |-> proc]

\* Every file of f is within the model's size bound.
WithinBounds(f) == \A q \in DOMAIN f : Len(f[q].data) <= MaxLen

(***************************************************************************)
(* The tools' actions                                                      *)
(***************************************************************************)
WriteFile(filepath, content, overwrite) ==
    LET r == write_file(fs, filepath, content, overwrite) IN
    /\ WithinBounds(r.fs)
    /\ fs' = r.fs
    /\ pre' = fs
    /\ last' = Call("write_file", filepath, content, <<>>, overwrite, r.ret)
    /\ preCwd' = cwd
    /\ UNCHANGED <<orchVars, cwd, environ, cli>>

EditFile(filepath, old_text, new_text) ==
    LET r == edit_file(fs, filepath, old_text, new_text) IN
    /\ WithinBounds(r.fs)
    /\ fs' = r.fs
    /\ pre' = fs
    /\ last' = Call("edit_file", filepath, old_text, new_text, FALSE, r.ret)
    /\ preCwd' = cwd
    /\ UNCHANGED <<orchVars, cwd, environ, cli>>

DeleteFile(filepath, confirm) ==
    LET r == delete_file(fs, filepath, confirm) IN
    /\ fs' = r.fs
    /\ pre' = fs
    /\ last' = Call("delete_file", filepath, <<>>, <<>>, confirm, r.ret)
    /\ preCwd' = cwd
    /\ UNCHANGED <<orchVars, cwd, environ, cli>>

(***************************************************************************)
(* The inputs of the tools' actions in a session that uses all of them     *)
(***************************************************************************)
\* No path of the model has more atoms than this.
MaxPath == 8

\* The filesystem such a session starts from: in the home directory a file
\* f and a directory d, in d a file a, a hidden file .h and a directory b.
ShellFs ==
    LET D == Home \o <<"/", "d">> IN
    [x \in {Root, Home, HomeF, D, D \o <<"/", "a">>, D \o <<"/", ".h">>, D \o <<"/", "b">>} |->
        CASE x = HomeF -> File(<<"a", "a">>, FALSE)
          [] x = D \o <<"/", "a">> -> File(<<"a">>, FALSE)
          [] x = D \o <<"/", ".h">> -> File(<<>>, FALSE)
          [] OTHER -> Dir(FALSE)]

ReadPaths == { <<"f">>, <<"d">>, <<"~", "/", "f">> }
ListPaths == { <<".">>, <<"d">>, <<"f">>, <<"~">> }
CreatePaths == { <<"~", "/", "d">>, <<"~", "/", "f">>, <<"n">>, <<"n", "/", "b">> }
CdPaths == { <<"d">>, <<"~">>, <<"f">>, <<"n", "/", "a">> }

\* The orders in which a directory scan can give the directories.
ScanNames == { <<"b">>, <<"d">>, <<"n">> }
ScanOrders ==
    { r \in [ScanNames -> 1..Cardinality(ScanNames)] :
        \A x, y \in ScanNames : x # y => r[x] # r[y] }

\* Commands, the programs on the search path, and what the child of a
\* command can do: with a shell, a blank command exits with 0 at once and
\* any other one runs, times out or prints what is no text; without a
\* shell the whole command names the program.
Commands == { <<"ls">>, <<"ls", " ", "-la">>, <<" ", " ">>, <<>> }
Programs == { <<"ls">> }
Timeouts == { 2, 60 }
Runs ==
    { Completed(o, e, c) :
        o \in { <<>>, <<" ", "x", "\n">> },
        e \in { <<>>, <<"warn", "\n">> },
        c \in { 0, 1 } }
ProcOutcomes(command, shell) ==
    IF shell
    THEN IF split(command) = <<>> THEN { Completed(<<>>, <<>>, 0) }
         ELSE Runs \cup { Failed("TimeoutExpired"), Failed("UnicodeDecodeError") }
    ELSE IF command = <<>> THEN { Failed("PermissionError") }
         ELSE IF command \in Programs
         THEN Runs \cup { Failed("TimeoutExpired"), Failed("UnicodeDecodeError") }
         ELSE { Failed("FileNotFoundError") }

\* What `git rev-parse --show-toplevel` prints.
GitOutcomes == { None, Home \o <<"\n">> }
PsutilOutcomes == { "ok", "missing", "fails" }

\* Environments: three variables in every order and number, and one
\* variable more than the unfiltered listing takes, the last of them first
\* by name.
SmallEnviron ==
    << [k |-> <<"B">>, v |-> <<"a", "b">>],
       [k |-> <<"A", "b">>, v |-> <<"K">>],
       [k |-> <<"K">>, v |-> <<"B", "a">>] >>
BigEnviron ==
    [i \in 1..(Cap + 1) |->
        IF i = Cap + 1 THEN [k |-> <<"A">>, v |-> <<"1">>]
        ELSE [k |-> <<"K", Digit(i \div 10), Digit(i % 10)>>, v |-> <<"v">>]]
Environments ==
    { e \in UNION { [1..n -> Range(SmallEnviron)] : n \in 0..Len(SmallEnviron) } :
        \A i, j \in 1..Len(e) : i # j => e[i] # e[j] }
    \cup { BigEnviron }
FilterPatterns == { None, <<>>, <<"b">>, <<"k">>, <<"A", "B">>, <<"K", "0">>, <<"n">> }

WithinPaths(f) == \A q \in DOMAIN f : Len(q) <= MaxPath

(***************************************************************************)
(* The actions of the other tools                                          *)
(***************************************************************************)
ReadFile(filepath) ==
    LET r == read_file(fs, filepath) IN
    /\ fs' = r.fs
    /\ pre' = fs
    /\ last' = Call("read_file", filepath, <<>>, <<>>, FALSE, r.ret)
    /\ preCwd' = cwd
    /\ UNCHANGED <<orchVars, cwd, environ, cli>>

ListDirectory(path, recursive, show_hidden, scan) ==
    LET r == list_directory(fs, path, recursive, show_hidden, scan) IN
    /\ fs' = r.fs
    /\ pre' = fs
    /\ last' = Call("list_directory", path, <<>>, <<>>,
                    <<recursive, show_hidden>>, r.ret)
    /\ preCwd' = cwd
    /\ UNCHANGED <<orchVars, cwd, environ, cli>>

CreateDirectory(path, parents) ==
    LET r == create_directory(fs, path, parents) IN
    /\ WithinPaths(r.fs)
    /\ fs' = r.fs
    /\ pre' = fs
    /\ last' = Call("create_directory", path, <<>>, <<>>, parents, r.ret)
    /\ preCwd' = cwd
    /\ UNCHANGED <<orchVars, cwd, environ, cli>>

\* The commands of the model leave the filesystem as it is.
ExecuteShellCommand(command, timeout, shell, proc) ==
    /\ last' = ShellCall(command, timeout, shell, proc,
                         execute_shell_command(command, timeout, shell, proc))
    /\ pre' = fs
    /\ preCwd' = cwd
    /\ UNCHANGED <<orchVars, fs, cwd, environ, cli>>

GetCurrentDirectory(repo_root) ==
    /\ last' = Call("get_current_directory", <<>>, <<>>, <<>>, FALSE,
                    get_current_directory(repo_root))
    /\ pre' = fs
    /\ preCwd' = cwd
    /\ UNCHANGED <<orchVars, fs, cwd, environ, cli>>

ChangeDirectory(path, searchable) ==
    LET r == change_directory(fs, path, searchable) IN
    /\ cwd' = r.cwd
    /\ preCwd' = cwd
    /\ pre' = fs
    /\ last' = Call("change_directory", path, <<>>, <<>>, searchable, r.ret)
    /\ UNCHANGED <<orchVars, fs, environ, cli>>

GetEnvironmentVariables(filter_pattern) ==
    /\ last' = Call("get_environment_variables", filter_pattern, <<>>, <<>>, FALSE,
                    get_environment_variables(environ, filter_pattern))
    /\ pre' = fs
    /\ preCwd' = cwd
    /\ UNCHANGED <<orchVars, fs, cwd, environ, cli>>

GetSystemInfo(psutil) ==
    /\ last' = Call("get_system_info", <<>>, <<>>, <<>>, FALSE, get_system_info(psutil))
    /\ pre' = fs
    /\ preCwd' = cwd
    /\ UNCHANGED <<orchVars, fs, cwd, environ, cli>>

(***************************************************************************)
(* The frontend's inputs and actions.  cli.pc is "prompt" while the loop   *)
(* waits for a line, "ended" when the loop was left by break, "crashed"    *)
(* when an exception left it; "returned" and "raised" are the two ends of  *)
(* a one-shot run.                                                         *)
(***************************************************************************)
TypedLines ==
    { <<"hello">>, <<" ", "hello", "\t">>, <<"exit", " ", "now">>, <<"[b]", "bold">>,
      <<"rm ", "[/b]">>, <<>>, <<" ">>,
      <<"exit">>, <<"EXIT">>, <<" ", "Quit">>, <<"q">>, <<"bye">>,
      <<"Help">>, <<"?">>, <<"CLS">>, <<"clear">> }
Inputs == { Typed(l) : l \in TypedLines } \cup { CtrlC, CtrlD }
CliRouterOutcomes ==
    { [exc |-> NoExc, content |-> c] : c \in {CONVERSATION, EXECUTOR, <<"c", "h", "a", "t">>} }
    \cup { [exc |-> Exc("TimeoutError", <<"request timed out">>), content |-> None] }

\* main() without a prompt, up to the loop (lines 50-51, 64-108).
StartInteractive(safe_mode, session_id, debug) ==
    /\ cli.pc = "none"
    /\ cli' = [cli EXCEPT !.pc = "prompt", !.safe_mode = safe_mode,
                          !.session = session_id, !.debug = debug]
    /\ UNCHANGED <<orchVars, toolVars>>

\* One pass of the loop of start_interactive_mode.
LoopPass(input, rresp, hresp) ==
    /\ cli.pc = "prompt"
    /\ LET ps == loop_pass(input, cli.safe_mode, cli.session, cli.debug, envKey,
                           rresp, hresp)
       IN cli' = [cli EXCEPT !.input = input, !.pass = ps,
                             !.pc = CASE ps.next = "continue" -> "prompt"
                                      [] ps.next = "break" -> "ended"
                                      [] ps.next = "raise" -> "crashed"]
    /\ UNCHANGED <<orchVars, toolVars>>

\* main() with a prompt (lines 55-61): one call of execute_command.
OneShot(p, dry_run, safe_mode, session_id, debug, rresp, hresp) ==
    /\ cli.pc = "none"
    /\ LET cmd == execute_command(p, dry_run, safe_mode, session_id, debug, envKey,
                                  rresp, hresp)
       IN cli' = [pc |-> IF cmd.exc = NoExc THEN "returned" ELSE "raised",
                  safe_mode |-> safe_mode, session |-> session_id, debug |-> debug,
                  dry_run |-> dry_run, input |-> Typed(p),
                  pass |-> Pass("oneshot", "break", cmd.exc, cmd)]
    /\ UNCHANGED <<orchVars, toolVars>>

(***************************************************************************)
(* Specifications: Spec is the orchestrator, SpecTools the file tools.     *)
(***************************************************************************)
\* The frontend was not started.
NoCli == [pc |-> "none", safe_mode |-> TRUE, session |-> None, debug |-> FALSE,
          dry_run |-> FALSE, input |-> Typed(<<>>),
          pass |-> Pass("none", "continue", NoExc, NoCommand)]

OrchInit ==
    /\ envKey \in EnvKeys
    /\ tg = NoInstance
    /\ pc = "idle"
    /\ prompt = None
    /\ session = None
    /\ routerResp = NoRouterResp
    /\ routed = NotRouted
    /\ llmResp = NoLlmResp
    /\ route = None
    /\ raised = NoExc
    /\ result = None
    /\ routerLog = <<>>
    /\ llmLog = <<>>
    /\ out = <<>>

Init ==
    /\ OrchInit
    /\ fs = BaseFs(FALSE)
    /\ pre = fs
    /\ last = NoCall
    /\ cwd = Home
    /\ preCwd = Home
    /\ environ = <<>>
    /\ cli = NoCli

Next ==
    \/ \E safe_mode \in BOOLEAN, debug \in BOOLEAN : Construct(safe_mode, debug)
    \/ \E p \in Utterances, s \in Sessions : ExecuteBegin(p, s)
    \/ \E resp \in RouterOutcomes : Route(resp)
    \/ \E resp \in HandlerOutcomes : Dispatch(resp)

Spec == Init /\ [][Next]_vars

InitTools ==
    /\ OrchInit
    /\ envKey = None
    /\ fs \in InitFilesystems
    /\ pre = fs
    /\ last = NoCall
    /\ cwd = Home
    /\ preCwd = Home
    /\ environ = <<>>
    /\ cli = NoCli

NextTools ==
    \/ \E p \in WritePaths, c \in WriteContents, o \in BOOLEAN : WriteFile(p, c, o)
    \/ \E p \in EditPaths, old \in OldTexts, new \in NewTexts : EditFile(p, old, new)
    \/ \E p \in DeletePaths, c \in BOOLEAN : DeleteFile(p, c)

SpecTools == InitTools /\ [][NextTools]_vars

\* SpecShell is a session that uses every tool.
InitShell ==
    /\ OrchInit
    /\ envKey = None
    /\ fs = ShellFs
    /\ pre = fs
    /\ last = NoCall
    /\ cwd = Home
    /\ preCwd = Home
    /\ environ = SmallEnviron
    /\ cli = NoCli

NextShell ==
    \/ \E p \in ReadPaths : ReadFile(p)
    \/ WriteFile(<<"~", "/", "f">>, <<"a">>, FALSE)
    \/ EditFile(<<"~", "/", "f">>, <<"a">>, <<"b">>)
    \/ \E c \in BOOLEAN : DeleteFile(<<"~", "/", "f">>, c)
    \/ \E r \in BOOLEAN, h \in BOOLEAN, scan \in ScanOrders : ListDirectory(<<".">>, r, h, scan)
    \/ \E parents \in BOOLEAN : CreateDirectory(<<"n">>, parents)
    \/ \E c \in Commands, t \in Timeouts, shell \in BOOLEAN :
          \E proc \in ProcOutcomes(c, shell) : ExecuteShellCommand(c, t, shell, proc)
    \/ \E g \in GitOutcomes : GetCurrentDirectory(g)
    \/ \E p \in CdPaths, searchable \in BOOLEAN : ChangeDirectory(p, searchable)
    \/ \E pat \in FilterPatterns : GetEnvironmentVariables(pat)
    \/ \E u \in PsutilOutcomes : GetSystemInfo(u)

SpecShell == InitShell /\ [][NextShell]_vars

\* SpecDirs is the directory tools on a tree of directories.
NextDirs ==
    \/ \E p \in ListPaths, r \in BOOLEAN, h \in BOOLEAN, scan \in ScanOrders :
          ListDirectory(p, r, h, scan)
    \/ \E p \in CreatePaths, parents \in BOOLEAN : CreateDirectory(p, parents)
    \/ \E p \in CdPaths, searchable \in BOOLEAN : ChangeDirectory(p, searchable)

SpecDirs == InitShell /\ [][NextDirs]_vars

\* SpecEnv is get_environment_variables on the environments.
InitEnv ==
    /\ OrchInit
    /\ envKey = None
    /\ fs = ShellFs
    /\ pre = fs
    /\ last = NoCall
    /\ cwd = Home
    /\ preCwd = Home
    /\ environ \in Environments
    /\ cli = NoCli

NextEnv == \E pat \in FilterPatterns : GetEnvironmentVariables(pat)

SpecEnv == InitEnv /\ [][NextEnv]_vars

\* SpecCli is the frontend, in interactive and in one-shot mode.
InitCli ==
    /\ OrchInit
    /\ fs = BaseFs(FALSE)
    /\ pre = fs
    /\ last = NoCall
    /\ cwd = Home
    /\ preCwd = Home
    /\ environ = <<>>
    /\ cli = NoCli

NextCli ==
    \/ \E safe_mode \in BOOLEAN, s \in Sessions, debug \in BOOLEAN :
          StartInteractive(safe_mode, s, debug)
    \/ \E input \in Inputs, rresp \in CliRouterOutcomes, hresp \in HandlerOutcomes :
          LoopPass(input, rresp, hresp)
    \/ \E p \in Utterances, dry_run \in BOOLEAN, safe_mode \in BOOLEAN, s \in Sessions,
          debug \in BOOLEAN, rresp \in CliRouterOutcomes, hresp \in HandlerOutcomes :
          OneShot(p, dry_run, safe_mode, s, debug, rresp, hresp)

SpecCli == InitCli /\ [][NextCli]_vars

(***************************************************************************)
(* Claims about the router and the orchestrator (under Spec)               *)
(***************************************************************************)
\* route() was called in this turn and has ended.
RouteCalled == Len(routerLog) = 1

\* C1: when the router's completion call raises a fault (timeout, transport,
\* auth, rate limit) or returns a malformed response object, route() returns
\* "conversation" and no exception leaves it, with debug on or off.
C1_RouterFaultFallsBack ==
    (RouteCalled /\ (routerResp.exc \in CompletionFaults \/ routerResp.content = NotAStr))
        => routed = [exc |-> NoExc, ret |-> CONVERSATION]

C1_Witness ==
    /\ RouteCalled
    /\ routerResp.exc \in CompletionFaults
    /\ tg.debug
    /\ routed.ret = CONVERSATION
    /\ pc = "dispatch"

\* s, trimmed of its surrounding whitespace and lowercased, is r.
NormalizesTo(s, r) ==
    \E i \in 1..(Len(s) + 1), j \in 0..Len(s) :
        /\ \A k \in 1..(i - 1) : s[k] \in Whitespace
        /\ \A k \in (j + 1)..Len(s) : s[k] \in Whitespace
        /\ i <= j => (s[i] \notin Whitespace /\ s[j] \notin Whitespace)
        /\ Len(r) = (IF i <= j THEN j - i + 1 ELSE 0)
        /\ \A k \in 1..Len(r) : r[k] = lowerCh[s[i + k - 1]]

\* C2: for every reply text, route() returns the reply trimmed and lowercased
\* when that is one of the three routes, and "conversation" for every other
\* reply; whatever route() returns is one of the three routes.
C2_RouteNormalizesReply ==
    /\ (RouteCalled /\ routed.exc = NoExc) => routed.ret \in RouteType
    /\ (RouteCalled /\ routerResp.exc = NoExc /\ routerResp.content # NotAStr) =>
          /\ routed.exc = NoExc
          /\ \A r \in RouteType : NormalizesTo(routerResp.content, r) => routed.ret = r
          /\ (\A r \in RouteType : ~NormalizesTo(routerResp.content, r))
                => routed.ret = CONVERSATION

C2_Witness ==
    /\ RouteCalled
    /\ routerResp.exc = NoExc
    /\ routerResp.content = <<"\t", "R">> \o Tail(RESEARCH)
    /\ routed.ret = RESEARCH

\* C3: execute() never propagates a fault, and a fault of a branch handler's
\* completion call is returned as "Sorry, I encountered an error: {message}".
\* (An interrupt of the user is no fault.)
C3_ExecuteNeverRaises ==
    pc = "done" =>
        /\ raised \in {NoExc, KeyboardInterrupt}
        /\ llmResp.exc \in CompletionFaults => result = SorryPrefix \o llmResp.exc.msg

\* C4: on the executor route execute() calls the orchestrator's model not at
\* all (the router's call is the turn's only one) and returns the stub
\* message with the utterance in it, unchanged.
C4_ExecutorMakesNoModelCall ==
    (pc = "done" /\ route = EXECUTOR) =>
        /\ llmLog = <<>>
        /\ Len(routerLog) = 1
        /\ raised = NoExc
        /\ result = ExecutorHead \o prompt \o ExecutorTail
        /\ Contains(result, prompt)

C4_Witness ==
    /\ pc = "done"
    /\ route = EXECUTOR
    /\ prompt = <<"deploy to production">>
    /\ Contains(result, <<"deploy to production">>)
    /\ llmLog = <<>>

\* C5: on the conversation route, when the completion call succeeds,
\* execute() returns exactly the text the call produced.
C5_ConversationReturnsModelText ==
    (pc = "done" /\ route = CONVERSATION /\ llmLog # <<>> /\ llmResp.exc = NoExc) =>
        /\ result = llmResp.text
        /\ raised = NoExc

C5_Witness ==
    /\ pc = "done"
    /\ route = CONVERSATION
    /\ prompt = <<"hello">>
    /\ llmResp = [exc |-> NoExc, text |-> <<"Hi there!">>]
    /\ result = <<"Hi there!">>

\* C6: on the research route, when the completion call succeeds, execute()
\* has made exactly one completion call, with the raw utterance as the user
\* content, and returns the model's text between the fixed header and note.
C6_ResearchWrapsModelText ==
    (pc = "done" /\ route = RESEARCH /\ llmResp.exc = NoExc) =>
        /\ Len(llmLog) = 1
        /\ llmLog[1][2] = <<"user", prompt>>
        /\ result = ResearchHead \o llmResp.text \o ResearchTail
        /\ raised = NoExc

C6_Witness ==
    /\ pc = "done"
    /\ route = RESEARCH
    /\ Len(llmLog) = 1
    /\ result = ResearchHead \o <<"Hi there!">> \o ResearchTail

\* C7: with the credential variable absent or empty, construction fails, and
\* fails before a router or model client exists; on a failed instance no
\* turn runs and no model call is made.
C7_MissingKeyFailsConstruction ==
    /\ (tg.status # "none" /\ (envKey = None \/ envKey = <<>>)) => tg.status = "failed"
    /\ tg.status = "failed" =>
          /\ tg.router = NoRouter
          /\ tg.llm = NoLLM
          /\ pc = "idle"
          /\ routerLog = <<>>
          /\ llmLog = <<>>

C7_Witness == tg.status = "failed" /\ envKey = <<>>

(***************************************************************************)
(* Claims about the file tools (under SpecTools)                           *)
(***************************************************************************)
LastPath == expanduser(last.path)
PermissionDenied(verb, p) == <<"Error: Permission denied to ", verb, " ">> \o p

\* C8, as claimed: delete_file with confirm unset changes nothing and returns
\* the warning; with confirm set on an existing regular file, the file is
\* gone afterwards and the size reported is its size before.
C8_DeleteAsClaimed ==
    last.op = "delete_file" =>
        /\ ~last.flag => (fs = pre /\ last.ret = DeleteWarning)
        /\ (last.flag /\ isfile(pre, LastPath)) =>
              /\ ~exists(fs, LastPath)
              /\ last.ret = Deleted(LastPath, getsize(pre, LastPath))

\* C8, amended: delete_file with confirm unset changes nothing and returns
\* the warning; with confirm set on an existing regular file, either the
\* directory refuses the removal, nothing changes and a permission-denied
\* string is returned, or the file alone is gone afterwards and the size
\* reported is its size before.
C8_DeleteOnlyOnConfirm ==
    last.op = "delete_file" =>
        /\ ~last.flag => (fs = pre /\ last.ret = DeleteWarning)
        /\ (last.flag /\ isfile(pre, LastPath)) =>
              IF pre[dirname(abspath(LastPath))].ro
              THEN fs = pre /\ last.ret = PermissionDenied("delete", LastPath)
              ELSE /\ ~exists(fs, LastPath)
                   /\ fs = Remove(pre, abspath(LastPath))
                   /\ last.ret = Deleted(LastPath, getsize(pre, LastPath))

C8_Witness ==
    /\ last.op = "delete_file"
    /\ last.flag
    /\ isfile(pre, LastPath)
    /\ getsize(pre, LastPath) = 3
    /\ ~exists(fs, LastPath)
    /\ last.ret = Deleted(LastPath, 3)

\* The last call was an edit_file that reported success.
EditSucceeded == last.op = "edit_file" /\ Head(last.ret) = "Edited "

\* C9: after a successful edit_file the .bak sibling holds the file's content
\* as it was before the edit, the file holds that content with every
\* occurrence of old_text replaced by new_text, and the count returned is
\* the number of occurrences of old_text in the content before the edit.
C9_EditBackupAndCount ==
    EditSucceeded =>
        LET before == pre[abspath(LastPath)].data IN
        /\ fs[abspath(LastPath \o <<".bak">>)].data = before
        /\ fs[abspath(LastPath)].data = str_replace(before, last.a, last.b)
        /\ last.ret = Edited(LastPath, str_count(before, last.a),
                             LastPath \o <<".bak">>, last.a, last.b)

\* C10: write_file without overwrite on a path that exists changes nothing on
\* the filesystem and returns the already-exists string; the filesystem
\* changes only with overwrite set or with the path absent.
C10_WriteKeepsExisting ==
    last.op = "write_file" =>
        /\ (~last.flag /\ exists(pre, LastPath)) =>
              (fs = pre /\ last.ret = AlreadyExists(LastPath))
        /\ fs # pre => (last.flag \/ ~exists(pre, LastPath))

C10_Witness ==
    /\ last.op = "write_file"
    /\ ~last.flag
    /\ isfile(pre, LastPath)
    /\ last.a # pre[abspath(LastPath)].data
    /\ fs = pre
    /\ last.ret = AlreadyExists(LastPath)

(***************************************************************************)
(* Claims about all the tools (under SpecShell, SpecDirs and SpecEnv)      *)
(***************************************************************************)
\* C11: every call of a tool ends by returning a string; no exception comes
\* out of a tool, not even out of one of its except clauses.
C11_ToolsNeverRaise ==
    last.op # "none" => (last.exc = NoExc /\ last.ret # None)

\* The lines of a text, and the lines of a listing that show an entry.
RECURSIVE Lines(_)
Lines(t) ==
    IF \E i \in 1..Len(t) : t[i] = "\n"
    THEN LET n == CHOOSE i \in 1..Len(t) : t[i] = "\n" /\ \A j \in 1..(i - 1) : t[j] # "\n"
         IN <<SubSeq(t, 1, n - 1)>> \o Lines(SubSeq(t, n + 1, Len(t)))
    ELSE <<t>>
IsEntry(l) == \E i \in 1..Len(l) : l[i] \in {"DIR ", "FILE "}
Mark(l) == CHOOSE i \in 1..Len(l) : l[i] \in {"DIR ", "FILE "}
EntryIndent(l) == Mark(l) - 1
EntryIsDir(l) == l[Mark(l)] = "DIR "
EntryName(l) ==
    IF EntryIsDir(l) THEN SubSeq(l, Mark(l) + 1, Len(l) - 1)
    ELSE SubSeq(l, Mark(l) + 1, (CHOOSE i \in 1..Len(l) : l[i] = " (") - 1)

\* The entries a listing shows: in recursive mode its first line is the
\* listed directory itself.
Entries(ret, recursive) ==
    LET ls == SelectSeq(Lines(ret), IsEntry) IN
    IF recursive THEN Tail(ls) ELSE ls

\* Entries i < j of es are in the same directory.
Siblings(es, i, j) ==
    /\ EntryIndent(es[i]) = EntryIndent(es[j])
    /\ \A k \in (i + 1)..(j - 1) : EntryIndent(es[k]) >= EntryIndent(es[i])

\* C12: the listing of an existing directory shows, in non-recursive and in
\* recursive mode, the entries of a directory with the directories before the
\* files and each kind in ascending order of name; it shows an entry whose
\* name starts with '.' only when show_hidden is set, and without recursion
\* it shows exactly the entries there are (the hidden ones when asked).
C12_ListingSortedDirsFirst ==
    (last.op = "list_directory" /\ isdir(pre, LastPath)) =>
        LET recursive == last.flag[1]
            show_hidden == last.flag[2]
            es == Entries(last.ret, recursive)
        IN /\ \A i, j \in 1..Len(es) :
                 (i < j /\ Siblings(es, i, j)) =>
                     /\ ~(~EntryIsDir(es[i]) /\ EntryIsDir(es[j]))
                     /\ EntryIsDir(es[i]) = EntryIsDir(es[j])
                           => str_lt(EntryName(es[i]), EntryName(es[j]))
           /\ ~show_hidden => \A i \in 1..Len(es) : ~hidden(EntryName(es[i]))
           /\ ~recursive =>
                 { EntryName(es[i]) : i \in 1..Len(es) }
                    = { x \in listdir(pre, abspath(LastPath)) : show_hidden \/ ~hidden(x) }

\* C12, without recursion only.
FlatListingSortedDirsFirst ==
    (last.op = "list_directory" /\ ~last.flag[1]) => C12_ListingSortedDirsFirst

\* C13: create_directory on a path that is a directory changes nothing and
\* returns the already-exists note, on a path that is something else changes
\* nothing and returns an error string; and a second call with the same
\* arguments leaves the filesystem as the first call left it.
C13_CreateDirectoryIdempotent ==
    last.op = "create_directory" =>
        /\ isdir(pre, LastPath) =>
              (fs = pre /\ last.ret = <<"Directory already exists: ">> \o LastPath)
        /\ (exists(pre, LastPath) /\ ~isdir(pre, LastPath)) =>
              (fs = pre /\ last.ret = <<"Error: ">> \o LastPath
                                        \o <<" exists but is not a directory">>)
        /\ create_directory(fs, last.path, last.flag).fs = fs

C13_Witness ==
    /\ last.op = "create_directory"
    /\ last.path = <<"n">>
    /\ isdir(pre, LastPath)
    /\ ~isdir(ShellFs, LastPath)
    /\ fs = pre
    /\ last.ret = DirectoryExists(<<"n">>)

\* The absolute path of p for a process whose working directory is dir.
Under(dir, p) == IF Head(p) = "/" THEN p ELSE dir \o <<"/">> \o p

\* C14: no tool but change_directory changes the working directory; a
\* change_directory to a directory the process may enter makes it the working
\* directory and reports the prior and the new one, every other
\* change_directory leaves the working directory and returns an error; and
\* get_current_directory and a relative create_directory go by the working
\* directory of the moment.
C14_OnlyChangeDirectoryMovesCwd ==
    /\ last.op \notin {"none", "change_directory"} => cwd = preCwd
    /\ last.op = "change_directory" =>
          LET target == Under(preCwd, LastPath) IN
          IF target \in DOMAIN pre /\ pre[target].kind = "dir" /\ last.flag
          THEN cwd = target /\ last.ret = ChangedDirectory(preCwd, target)
          ELSE /\ cwd = preCwd
               /\ last.ret \in { <<"Error: Directory not found: ">> \o LastPath,
                                 <<"Error: Not a directory: ">> \o LastPath,
                                 <<"Error: Permission denied to access ">> \o LastPath }
    /\ last.op = "get_current_directory" =>
          SubSeq(last.ret, 1, 1 + Len(cwd)) = <<"Current Directory: ">> \o cwd
    /\ (last.op = "create_directory" /\ last.ret = CreatedDirectory(LastPath)
          /\ Head(LastPath) # "/") =>
          /\ cwd \o <<"/">> \o LastPath \notin DOMAIN pre
          /\ fs = Put(pre, cwd \o <<"/">> \o LastPath, Dir(FALSE))

C14_Witness ==
    /\ last.op = "create_directory"
    /\ last.path = <<"n">>
    /\ cwd = Home \o <<"/", "d">>
    /\ Home \o <<"/", "d", "/", "n">> \in DOMAIN fs
    /\ Home \o <<"/", "d", "/", "n">> \notin DOMAIN pre
    /\ Home \o <<"/", "n">> \notin DOMAIN fs

\* The keys of the lines of a listing of variables, in the listing's order.
EnvEntryKeys(ret) ==
    LET ls == SelectSeq(Lines(ret), LAMBDA l : \E i \in 1..Len(l) : l[i] = "=")
    IN [n \in 1..Len(ls) |-> SubSeq(ls[n], 1, (CHOOSE i \in 1..Len(ls[n]) : ls[n][i] = "=") - 1)]
AllKeys == { environ[i].k : i \in 1..Len(environ) }
ValueOf(key) == environ[CHOOSE i \in 1..Len(environ) : environ[i].k = key].v
\* s contains pattern, letter case aside.
ContainsFolded(s, pattern) ==
    \E i \in 1..(Len(s) + 1) :
        /\ i + Len(pattern) - 1 <= Len(s)
        /\ \A k \in 1..Len(pattern) :
              str_lower(<<s[i + k - 1]>>) = str_lower(<<pattern[k]>>)

\* C15: without a filter the listing is the variables in ascending order of
\* key, cut after the first 50 of that order, each line being key=value, and
\* the closing note gives the number of variables there are; with a filter
\* the listing is, in ascending order of key and without a cut, the variables
\* whose key or value contains the pattern, letter case aside.
C15_EnvListingAsClaimed ==
    last.op = "get_environment_variables" =>
        LET keys == EnvEntryKeys(last.ret)
            unfiltered == last.path \in {None, <<>>}
            wanted ==
                IF unfiltered
                THEN { k \in AllKeys : Cardinality({ x \in AllKeys : str_lt(x, k) }) < Cap }
                ELSE { k \in AllKeys : \/ ContainsFolded(k, last.path)
                                       \/ ContainsFolded(ValueOf(k), last.path) }
        IN /\ { keys[i] : i \in 1..Len(keys) } = wanted
           /\ \A i, j \in 1..Len(keys) : i < j => str_lt(keys[i], keys[j])
           /\ \A i \in 1..Len(keys) :
                 Contains(last.ret, keys[i] \o <<"=">> \o ValueOf(keys[i]))
           /\ unfiltered =>
                 Contains(last.ret, str_int(Len(environ)) \o <<" total variables">>)

\* t is s without its leading and trailing whitespace.
IsTrimOf(s, t) ==
    \E i \in 1..(Len(s) + 1), j \in 0..Len(s) :
        /\ \A k \in 1..(i - 1) : s[k] \in Whitespace
        /\ \A k \in (j + 1)..Len(s) : s[k] \in Whitespace
        /\ i <= j => (s[i] \notin Whitespace /\ s[j] \notin Whitespace)
        /\ t = (IF i <= j THEN SubSeq(s, i, j) ELSE <<>>)
Pieces(s) == { SubSeq(s, i, j) : i \in 1..(Len(s) + 1), j \in 0..Len(s) }

ShellCalled == last.op = "execute_shell_command"
ExitCodeLine(c) ==
    IF c = 0 THEN <<"Exit code: 0 (success)">> ELSE <<"Exit code: ">> \o str_int(c)

\* C16, as claimed: when the child has run to its end, whatever its exit
\* code, the result holds the captured stdout, the captured stderr and the
\* line of the exit code; when the timeout is exceeded the result is the
\* timeout error string.
C16_ShellAsClaimed ==
    ShellCalled =>
        /\ last.proc.kind \in {"completed", "UnicodeDecodeError"} =>
              /\ last.exc = NoExc
              /\ Contains(last.ret, last.proc.stdout)
              /\ Contains(last.ret, last.proc.stderr)
              /\ Contains(last.ret, ExitCodeLine(last.proc.returncode))
        /\ last.proc.kind = "TimeoutExpired" =>
              last.ret = <<"Error: Command timed out after ">> \o last.a
                         \o <<" seconds", "\n", "Command: ">> \o last.path

\* C16, amended: when the child has run to its end and its output is text,
\* whatever its exit code, the result is the captured stdout and the captured
\* stderr, each without its leading and trailing whitespace and each under
\* its heading (left out when nothing was captured), and then the line of the
\* exit code; when its output is no text the result is an error string; when
\* the timeout is exceeded the result is the timeout error string.
C16_ShellReportsExitCode ==
    ShellCalled =>
        /\ last.proc.kind = "completed" =>
              /\ last.exc = NoExc
              /\ \E o \in Pieces(last.proc.stdout), e \in Pieces(last.proc.stderr) :
                    /\ IsTrimOf(last.proc.stdout, o)
                    /\ IsTrimOf(last.proc.stderr, e)
                    /\ last.ret =
                          (IF last.proc.stdout # <<>>
                           THEN <<"Output:", "\n">> \o o \o <<"\n">> ELSE <<>>)
                          \o (IF last.proc.stderr # <<>>
                              THEN <<"\n", "Errors/Warnings:", "\n">> \o e \o <<"\n">>
                              ELSE <<>>)
                          \o <<"\n">> \o ExitCodeLine(last.proc.returncode)
        /\ last.proc.kind = "UnicodeDecodeError" =>
              /\ last.exc = NoExc
              /\ Head(last.ret) = "Error executing command: "
        /\ last.proc.kind = "TimeoutExpired" =>
              last.ret = <<"Error: Command timed out after ">> \o last.a
                         \o <<" seconds", "\n", "Command: ">> \o last.path

C16_Witness ==
    /\ ShellCalled
    /\ last.proc = Completed(<<" ", "x", "\n">>, <<"warn", "\n">>, 1)
    /\ Contains(last.ret, <<"Exit code: ", "1">>)
    /\ Contains(last.ret, <<"Output:", "\n", "x", "\n">>)

(***************************************************************************)
(* Claims about the frontend (under SpecCli)                               *)
(***************************************************************************)
OneShotDone == cli.pc \in {"returned", "raised"}

\* C17: a one-shot run with the dry-run flag prints the input and returns,
\* and has not run the constructor (so has not checked the credential) nor
\* made a call of the router's or of the orchestrator's model.
C17_DryRunPrintsAndReturns ==
    (OneShotDone /\ cli.dry_run) =>
        /\ cli.pc = "returned"
        /\ cli.pass.cmd.printed
        /\ ~cli.pass.cmd.constructed
        /\ cli.pass.cmd.forwarded = None
        /\ cli.pass.cmd.router_calls = 0
        /\ cli.pass.cmd.llm_calls = 0

\* C17, the part on the constructor and the model calls alone.
DryRunMakesNoCall ==
    (OneShotDone /\ cli.dry_run) =>
        /\ ~cli.pass.cmd.constructed
        /\ cli.pass.cmd.forwarded = None
        /\ cli.pass.cmd.router_calls = 0
        /\ cli.pass.cmd.llm_calls = 0

\* The loop has taken a typed line.
LineTaken == cli.pc \in {"prompt", "ended", "crashed"} /\ cli.pass.how # "none"
                /\ cli.input.kind = "line"
IsSentinel(l) == line_lower(l) \in QuitWords \cup HelpWords \cup ClearWords

\* C18: a line that is, letter case aside, a quit, help or clear word is
\* taken as that and no call of execute_command, of the constructor or of
\* execute is made for it; every other line is the prompt that execute gets,
\* unchanged (the credential being there).
C18_SentinelsHandledOthersForwarded ==
    LineTaken =>
        /\ IsSentinel(cli.input.line) =>
              /\ cli.pass.how \in {"quit", "help", "clear"}
              /\ cli.pass.cmd = NoCommand
        /\ (~IsSentinel(cli.input.line) /\ ~KeyMissing(envKey)) =>
              cli.pass.cmd.forwarded = cli.input.line

\* C18, the part on the sentinels alone.
SentinelsNeverForwarded ==
    (LineTaken /\ IsSentinel(cli.input.line)) =>
        (cli.pass.how \in {"quit", "help", "clear"} /\ cli.pass.cmd = NoCommand)

\* C19: no exception leaves the loop, whatever a pass of it met: the loop
\* waits for the next line after a fault or an interrupt, and it is left
\* only by a quit word or by the end of the input.
C19_LoopSurvivesFaults ==
    /\ cli.pc # "crashed"
    /\ cli.pc = "ended" => cli.pass.how \in {"quit", "eof"}
    /\ (cli.pc \in {"prompt", "ended"} /\ cli.pass.how \in {"error", "interrupted"})
          => cli.pc = "prompt"

(***************************************************************************)
(* Claims about the calls of a turn (under Spec)                           *)
(***************************************************************************)
\* The turn's execute() has ended otherwise than by an interrupt of the user.
TurnEnded == pc = "done" /\ raised # KeyboardInterrupt

\* C20: a call of execute makes one call of the router's model, then runs
\* one branch handler, which makes no call (executor) or one (conversation,
\* research) of the orchestrator's model, also when that call fails; after a
\* fault of the router's call it is the conversation handler that makes its
\* one call.
C20_OneRouterCallOneHandler ==
    TurnEnded =>
        /\ Len(routerLog) = 1
        /\ route \in RouteType
        /\ route = EXECUTOR => llmLog = <<>>
        /\ route \in {CONVERSATION, RESEARCH} => Len(llmLog) = 1
        /\ Len(routerLog) + Len(llmLog) <= 2
        /\ routerResp.exc \in CompletionFaults =>
              (route = CONVERSATION
               /\ llmLog = <<Messages(ConversationSystemPrompt, prompt)>>)

\* C20, for the turns that got as far as the try statement of execute.
CallsOnceRouted ==
    (TurnEnded /\ routerLog # <<>>) => C20_OneRouterCallOneHandler

\* A turn taken in one piece ends as the turn taken step by step.
ExecuteInOnePiece ==
    pc = "done" =>
        LET x == TwoGiants_execute(tg, prompt, routerResp, llmResp) IN
        /\ raised = x.exc
        /\ result = x.ret
        /\ Len(routerLog) = x.router_calls
        /\ Len(llmLog) = x.llm_calls

(***************************************************************************)
(* Claims about what a turn depends on (under Spec)                        *)
(***************************************************************************)
\* C21: the session identifier and safe_mode are inert.  A turn that ended,
\* whatever its session and its instance's safe_mode, sent the prompts, took
\* the route and ended with the reply (or the exception) that a call of
\* execute on an instance built with either value of safe_mode gives for the
\* same utterance, debug setting, credential and behaviour of the two model
\* calls; these depend on nothing of an earlier turn.
C21_SessionAndSafeModeInert ==
    pc = "done" =>
        \A safe_mode \in BOOLEAN :
            LET t == TwoGiants_init(safe_mode, tg.debug, envKey)
                x == TwoGiants_execute(t, prompt, routerResp, llmResp)
                r == RouterAgent_route(prompt, routerResp, t.router.debug)
                received == <<"[dim]", "Received: ">> \o prompt \o <<"[/dim]">>
            IN /\ t.status = "ready"
               /\ (routerLog = <<>>) = (t.debug /\ MarkupError(received))
               /\ raised = x.exc
               /\ result = x.ret
               /\ routerLog = IF x.router_calls = 1
                              THEN <<_build_classification_prompt(prompt)>> ELSE <<>>
               /\ route = IF x.router_calls = 1 /\ r.exc = NoExc THEN r.ret ELSE None
               /\ llmLog = IF route = None THEN <<>>
                           ELSE execute_branch(route, prompt, llmResp).calls

C21_Witness ==
    /\ pc = "done"
    /\ session = <<"s1">>
    /\ ~tg.safe_mode
    /\ route = RESEARCH
    /\ llmLog = <<Messages(ResearchSystemPrompt, prompt)>>
    /\ prompt = <<"deploy to production">>
    /\ result = _handle_research(llmResp.text)

\* The steps of execute leave the instance as the constructor made it.
ExecuteLeavesInstance == [][pc' # "idle" => tg' = tg]_vars

(***************************************************************************)
(* Claims about a failing edit (under SpecTools)                           *)
(***************************************************************************)
\* "Error: Text not found in p", as edit_file reports it.
TextNotFound(p, old_text) ==
    <<"Error: Text not found in ">> \o p \o <<"\n", "Searched for: ">>
    \o Slice(old_text, 100) \o <<"...">>

\* C22: an edit_file call on a path that is missing, or is not a regular
\* file, or is a text file whose content does not contain old_text, leaves
\* the whole filesystem as it was (the target is not modified, no .bak
\* sibling is created or modified) and returns the error string of its case.
C22_FailedEditChangesNothing ==
    last.op = "edit_file" =>
        LET q == abspath(LastPath)
            missing == q \notin DOMAIN pre
            not_regular == ~missing /\ pre[q].kind # "file"
            lacks == /\ ~missing /\ ~not_regular
                     /\ ~Undecodable(pre[q].data)
                     /\ ~Contains(decode(pre[q].data), last.a)
        IN /\ missing => (fs = pre /\ last.ret = NotFound(LastPath))
           /\ not_regular => (fs = pre /\ last.ret = NotAFile(LastPath))
           /\ lacks => (fs = pre /\ last.ret = TextNotFound(LastPath, last.a))

\* A file whose .bak sibling exists is searched for a text it does not hold.
C22_Witness ==
    /\ last.op = "edit_file"
    /\ isfile(pre, LastPath)
    /\ isfile(pre, LastPath \o <<".bak">>)
    /\ pre[abspath(LastPath)].data # pre[abspath(LastPath \o <<".bak">>)].data
    /\ last.a = <<"z">>
    /\ fs = pre
    /\ last.ret = TextNotFound(LastPath, last.a)

====
